---- MODULE Spec2Model ----
(***************************************************************************)
(* Delivery ingestion backend (krishnx/vestigas): the job orchestrator,    *)
(* the partner fetch client with its retry wrapper, the partner            *)
(* transformers, and the delivery store with its idempotent upsert.        *)
(*                                                                         *)
(* Conventions                                                             *)
(*  - Optional values: None is the empty tuple, Some(x) the 1-tuple <<x>>. *)
(*  - JSON scalars of partner payloads are tagged records (JStr, JInt,     *)
(*    JBool, JNull) so that values of different JSON types can be compared. *)
(*  - datetimes are naturals; datetime.now() reads the variable clock.     *)
(*  - scores are the floats 1.0, 3.0, 5.0, written as the integers 1, 3, 5. *)
(***************************************************************************)
EXTENDS Integers, Sequences, FiniteSets, TLC

(***************************************************************************)
(* Bounds of the model                                                     *)
(***************************************************************************)
\* number of job submissions (POST /fetch requests)
MaxJobs == 2
\* longest record list a partner response carries
MaxRecords == 2
\* transient failures the partners inject while jobs overlap
MaxFaults == 1
\* largest page size (limit) and largest offset of a listing or search
MaxLimit == 2
MaxOffset == 2
\* latest reading of the clock, where time passes
MaxClock == 2

(***************************************************************************)
(* Program constants                                                       *)
(***************************************************************************)
\* client.py:42  @async_retry(max_retries=3)
MaxRetries == 3
\* retry.py:17
RETRY_STATUS_CODES == {500, 502, 503, 504}
\* retry.py:11-15
DEFAULT_RETRY_EXCEPTIONS == {"ConnectError", "TimeoutException", "HTTPStatusError"}
\* client.py:17-18, 20-29: PARTNER_CONFIG keys in registration order
PARTNER_A == "Partner_A"
PARTNER_B == "Partner_B"
PARTNER_CONFIG == <<PARTNER_A, PARTNER_B>>
Partners == {PARTNER_CONFIG[i] : i \in 1..Len(PARTNER_CONFIG)}

None == << >>
Some(x) == <<x>>
IsSome(o) == Len(o) > 0
Get(o) == o[1]

(***************************************************************************)
(* JSON values of partner payloads                                         *)
(***************************************************************************)
JStr(s) == [t |-> "str", s |-> s, n |-> 0, b |-> FALSE]
JInt(n) == [t |-> "int", s |-> "", n |-> n, b |-> FALSE]
JBool(b) == [t |-> "bool", s |-> "", n |-> 0, b |-> b]
JNull == [t |-> "null", s |-> "", n |-> 0, b |-> FALSE]

\* Python truthiness of a JSON scalar
Truthy(v) ==
    CASE v.t = "str" -> v.s # ""
      [] v.t = "int" -> v.n # 0
      [] v.t = "bool" -> v.b
      [] OTHER -> FALSE

\* dict.get(key, default) on a JSON object (a TLA+ record of JSON values)
DictGet(d, key, default) == IF key \in DOMAIN d THEN d[key] ELSE default

(***************************************************************************)
(* Strings as character sequences, for str.lower() and the `in` operator   *)
(***************************************************************************)
UpperChars == <<"A","B","C","D","E","F","G","H","I","J","K","L","M",
                "N","O","P","Q","R","S","T","U","V","W","X","Y","Z">>
LowerChars == <<"a","b","c","d","e","f","g","h","i","j","k","l","m",
                "n","o","p","q","r","s","t","u","v","w","x","y","z">>

LowerChar(c) ==
    IF \E i \in 1..Len(UpperChars) : UpperChars[i] = c
    THEN LowerChars[CHOOSE i \in 1..Len(UpperChars) : UpperChars[i] = c]
    ELSE c

\* str.lower()
Lower(cs) == [i \in 1..Len(cs) |-> LowerChar(cs[i])]

\* needle in hay
Contains(hay, needle) ==
    \E i \in 1..(Len(hay) - Len(needle) + 1) :
        SubSeq(hay, i, i + Len(needle) - 1) = needle

\* The raw status strings partners send in this model, spelled out.
Chars(s) ==
    CASE s = "DELIVERED" -> <<"D", "E", "L", "I", "V", "E", "R", "E", "D">>
      [] s = "done" -> <<"d", "o", "n", "e">>
      [] s = "In Transit" -> <<"I", "n", " ", "T", "r", "a", "n", "s", "i", "t">>
      [] s = "Cancelled" -> <<"C", "a", "n", "c", "e", "l", "l", "e", "d">>
      [] s = "UNKNOWN" -> <<"U", "N", "K", "N", "O", "W", "N">>
      [] s = "Delivery FAILED" -> <<"D", "e", "l", "i", "v", "e", "r", "y", " ", "F", "A", "I", "L", "E", "D">>
      [] s = "shipped - complete" -> <<"s", "h", "i", "p", "p", "e", "d", " ", "-", " ", "c", "o", "m", "p", "l", "e", "t", "e">>
      [] s = "Rejected, rescheduled" -> <<"R", "e", "j", "e", "c", "t", "e", "d", ",", " ", "r", "e", "s", "c", "h", "e", "d", "u", "l", "e", "d">>
      [] s = "at depot" -> <<"a", "t", " ", "d", "e", "p", "o", "t">>

RawStatuses == {"DELIVERED", "done", "In Transit", "Cancelled", "UNKNOWN", "Delivery FAILED", "shipped - complete", "Rejected, rescheduled", "at depot"}

\* transformers.py:27, 29, 31: the keyword lists
DeliveredKeywords == {<<"d", "e", "l", "i", "v", "e", "r", "e", "d">>,
                      <<"d", "o", "n", "e">>,
                      <<"c", "o", "m", "p", "l", "e", "t", "e">>}
CancelledKeywords == {<<"c", "a", "n", "c", "e", "l">>,
                      <<"f", "a", "i", "l">>,
                      <<"r", "e", "j", "e", "c", "t", "e", "d">>}
PendingKeywords == {<<"t", "r", "a", "n", "s", "i", "t">>,
                    <<"s", "h", "i", "p", "p", "e", "d">>,
                    <<"p", "e", "n", "d", "i", "n", "g">>,
                    <<"s", "c", "h", "e", "d", "u", "l", "e", "d">>}

\* Mutant of NormalizeChars: the keywords are looked for in the raw status
\* as it is spelled (no .lower()).
NormalizeCharsCaseSensitive(cs) ==
    IF \E k \in DeliveredKeywords : Contains(cs, k) THEN "delivered"
    ELSE IF \E k \in CancelledKeywords : Contains(cs, k) THEN "cancelled"
    ELSE IF \E k \in PendingKeywords : Contains(cs, k) THEN "pending"
    ELSE "other"

\* transformers.py:24-33 on the characters of the raw status
NormalizeChars(cs) ==
    LET status_lower == Lower(cs) IN
    IF \E k \in DeliveredKeywords : Contains(status_lower, k) THEN "delivered"
    ELSE IF \E k \in CancelledKeywords : Contains(status_lower, k) THEN "cancelled"
    ELSE IF \E k \in PendingKeywords : Contains(status_lower, k) THEN "pending"
    ELSE "other"

\* transformers.py:24-33
_normalize_status(partner_status) == NormalizeChars(Chars(partner_status))

\* Mutant of _calculate_score: a signature only counts for a delivery that
\* was delivered.
_calculate_score_signed_if_delivered(is_delivered, is_signed) ==
    LET s0 == 1
        s1 == IF is_delivered THEN s0 + 2 ELSE s0
        s2 == IF is_delivered /\ is_signed THEN s1 + 2 ELSE s1
    IN IF s2 < 5 THEN s2 ELSE 5

\* transformers.py:36-46; min(5.0, score) caps the sum
_calculate_score(is_delivered, is_signed) ==
    LET s0 == 1
        s1 == IF is_delivered THEN s0 + 2 ELSE s0
        s2 == IF is_signed THEN s1 + 2 ELSE s1
    IN IF s2 < 5 THEN s2 ELSE 5

(***************************************************************************)
(* Partner transformers (transformers.py)                                  *)
(***************************************************************************)
\* A raw record is [type |-> "object", obj |-> <JSON object>] or a JSON
\* scalar [type |-> "scalar", obj |-> << >>], on which .get raises
\* AttributeError.
JObject(o) == [type |-> "object", obj |-> o]
JScalar == [type |-> "scalar", obj |-> << >>]
EmptyDict == << >>

\* datetime.fromisoformat on the ISO strings of this model
IsoTimes == {"2025-10-27T08:00:00Z", "2025-10-27T09:30:00"}
fromisoformat(s) == IF s = "2025-10-27T08:00:00Z" THEN 8 ELSE 9

\* int(str) on the numeric strings of this model
NumericStrings == {"3", "4"}
IntOfStr(s) == IF s = "3" THEN 3 ELSE 4

\* schemas.py:28-36, pydantic's validation of a `str` field: a str instance,
\* the empty string included
ValidStr(v) == v.t = "str"

\* schemas.py:36, pydantic's lax validation of a `bool` field
TrueStrings == {"1", "on", "t", "true", "y", "yes"}
FalseStrings == {"0", "off", "f", "false", "n", "no"}
ValidBool(v) ==
    \/ v.t = "bool"
    \/ v.t = "int" /\ v.n \in {0, 1}
    \/ v.t = "str" /\ v.s \in (TrueStrings \cup FalseStrings)
CoerceBool(v) ==
    CASE v.t = "bool" -> v.b
      [] v.t = "int" -> v.n = 1
      [] OTHER -> v.s \in TrueStrings

NoEvent ==
    [siteId |-> "", supplier |-> "", supplierDeliveryId |-> "", deliveredAt |-> 0,
     status |-> "", deliveryScore |-> 0, isSigned |-> FALSE]

Raised(exc) == [raised |-> TRUE, exc |-> exc, event |-> NoEvent, data_errors |-> None]
Returned(event, data_errors) ==
    [raised |-> FALSE, exc |-> "", event |-> event, data_errors |-> data_errors]

\* transformers.py:80-96 and 131-146: DeliveryEventBase(...) validates, and
\* a ValidationError is re-raised
BuildEvent(supplier_name, site, id, delivered_at, status_normalized, score, is_signed, errors) ==
    IF ValidStr(site) /\ ValidStr(id) /\ ValidBool(is_signed)
    THEN Returned([siteId |-> site.s, supplier |-> supplier_name,
                   supplierDeliveryId |-> id.s, deliveredAt |-> delivered_at,
                   status |-> status_normalized, deliveryScore |-> score,
                   isSigned |-> CoerceBool(is_signed)],
                  errors)
    ELSE Raised("ValidationError")

\* Mutant of PartnerATransformer: a delivery time that does not parse is an
\* error of the record (no try around the parsing).
PartnerATransformerStrictTime(raw_data, now) ==
    IF raw_data.type # "object" THEN Raised("AttributeError")
    ELSE
    LET d == raw_data.obj
        status_raw == DictGet(d, "deliveryStatus", JStr("UNKNOWN"))
    IN  IF status_raw.t # "str" THEN Raised("AttributeError")
        ELSE
        LET status_normalized == _normalize_status(status_raw.s)
            is_delivered == (status_normalized = "delivered")
            is_signed == DictGet(d, "podSigned", JBool(FALSE))
            score == _calculate_score(is_delivered, Truthy(is_signed))
            delivered_at_str == DictGet(d, "deliveryTime", JNull)
            parsed == /\ Truthy(delivered_at_str)
                      /\ delivered_at_str.t = "str"
                      /\ delivered_at_str.s \in IsoTimes
        IN  IF ~parsed THEN Raised("ValueError")
            ELSE BuildEvent(PARTNER_A, DictGet(d, "site_id", JNull),
                            DictGet(d, "order_id", JNull),
                            fromisoformat(delivered_at_str.s),
                            status_normalized, score, is_signed, None)

\* transformers.py:53-96
PartnerATransformer(raw_data, now) ==
    IF raw_data.type # "object" THEN Raised("AttributeError")
    ELSE
    LET d == raw_data.obj
        status_raw == DictGet(d, "deliveryStatus", JStr("UNKNOWN"))
    IN  IF status_raw.t # "str" THEN Raised("AttributeError")
        ELSE
        LET status_normalized == _normalize_status(status_raw.s)
            is_delivered == (status_normalized = "delivered")
            is_signed == DictGet(d, "podSigned", JBool(FALSE))
            score == _calculate_score(is_delivered, Truthy(is_signed))
            delivered_at_str == DictGet(d, "deliveryTime", JNull)
            parsed == /\ Truthy(delivered_at_str)
                      /\ delivered_at_str.t = "str"
                      /\ delivered_at_str.s \in IsoTimes
            errors == IF parsed THEN None
                      ELSE Some([deliveredAt |->
                                 IF Truthy(delivered_at_str) THEN "unparsable"
                                 ELSE "missing or empty"])
            delivered_at == IF parsed THEN fromisoformat(delivered_at_str.s) ELSE now
        IN  BuildEvent(PARTNER_A, DictGet(d, "site_id", JNull),
                       DictGet(d, "order_id", JNull), delivered_at,
                       status_normalized, score, is_signed, errors)

\* transformers.py:103-146
PartnerBTransformer(raw_data, now) ==
    IF raw_data.type # "object" THEN Raised("AttributeError")
    ELSE
    LET d == raw_data.obj
        status_raw == DictGet(DictGet(d, "status", EmptyDict), "code", JStr("UNKNOWN"))
    IN  IF status_raw.t # "str" THEN Raised("AttributeError")
        ELSE
        LET status_normalized == _normalize_status(status_raw.s)
            is_delivered == (status_normalized = "delivered")
            is_signed == DictGet(DictGet(d, "proof", EmptyDict), "signed", JBool(FALSE))
            score == _calculate_score(is_delivered, Truthy(is_signed))
            delivered_at_str ==
                DictGet(DictGet(d, "timestamps", EmptyDict), "delivery_completion", JNull)
            parsed == /\ Truthy(delivered_at_str)
                      /\ \/ delivered_at_str.t \in {"int", "bool"}
                         \/ delivered_at_str.t = "str" /\ delivered_at_str.s \in NumericStrings
            delivered_at_ts ==
                CASE delivered_at_str.t = "int" -> delivered_at_str.n
                  [] delivered_at_str.t = "bool" -> 1
                  [] OTHER -> IntOfStr(delivered_at_str.s)
            errors == IF parsed THEN None
                      ELSE Some([deliveredAt |->
                                 IF Truthy(delivered_at_str) THEN "unparsable"
                                 ELSE "missing or empty"])
            delivered_at == IF parsed THEN delivered_at_ts ELSE now
        IN  BuildEvent(PARTNER_B, DictGet(DictGet(d, "location", EmptyDict), "site_ref", JNull),
                       DictGet(d, "reference_id", JNull), delivered_at,
                       status_normalized, score, is_signed, errors)

\* transformers.py:149-152 PARTNER_TRANSFORMERS, client.py:65, 80
transform_and_score(partner_name, raw_data, now) ==
    IF partner_name = PARTNER_A THEN PartnerATransformer(raw_data, now)
    ELSE PartnerBTransformer(raw_data, now)

(***************************************************************************)
(* Retry wrapper (utils/retry.py)                                          *)
(***************************************************************************)
\* What one awaited call of the wrapped function produces: a response with
\* a status code and a body, or an exception (status_code is that of
\* e.response for an HTTPStatusError).
NoBody == [kind |-> "none", items |-> << >>]
Response(code, body) == [kind |-> "response", status_code |-> code, exc |-> "", body |-> body]
Exception(exc, code) == [kind |-> "exception", status_code |-> code, exc |-> exc, body |-> NoBody]

\* Mutant of wrapper: every exception is retried, whatever its class and
\* its status code.
wrapper_retries_every_exception(attempt, outcome) ==
    LET e == IF outcome.kind = "response"
             THEN IF outcome.status_code \in RETRY_STATUS_CODES /\ attempt < MaxRetries
                  THEN Some("HTTPStatusError") ELSE None
             ELSE Some(outcome.exc)
    IN  IF ~IsSome(e) THEN "return"
        ELSE IF attempt < MaxRetries THEN "sleep"
        ELSE "raise"

\* Mutant of wrapper: a retriable status code is raised as HTTPStatusError at
\* the last attempt too (no `attempt < max_retries` at retry.py:52).
wrapper_raises_last_status(attempt, outcome) ==
    LET e == IF outcome.kind = "response"
             THEN IF outcome.status_code \in RETRY_STATUS_CODES
                  THEN Some("HTTPStatusError") ELSE None
             ELSE Some(outcome.exc)
    IN  IF ~IsSome(e) THEN "return"
        ELSE IF Get(e) \notin DEFAULT_RETRY_EXCEPTIONS THEN "raise"
        ELSE IF Get(e) = "HTTPStatusError" /\ outcome.status_code \notin RETRY_STATUS_CODES
             THEN "raise"
        ELSE IF attempt < MaxRetries THEN "sleep"
        ELSE "raise"

\* Mutant of wrapper: a retriable failure is retried whatever the number of
\* the attempt (`while True` instead of range(max_retries + 1)).
wrapper_retries_without_bound(attempt, outcome) ==
    LET e == IF outcome.kind = "response"
             THEN IF outcome.status_code \in RETRY_STATUS_CODES
                  THEN Some("HTTPStatusError") ELSE None
             ELSE Some(outcome.exc)
    IN  IF ~IsSome(e) THEN "return"
        ELSE IF Get(e) \notin DEFAULT_RETRY_EXCEPTIONS THEN "raise"
        ELSE IF Get(e) = "HTTPStatusError" /\ outcome.status_code \notin RETRY_STATUS_CODES
             THEN "raise"
        ELSE "sleep"

\* retry.py:41-76, one iteration of the loop for the outcome of `await func`:
\* "return" the response, "raise" to the caller, or "sleep" and go on with
\* the next attempt.
wrapper(attempt, outcome) ==
    LET \* retry.py:52-53: a retriable status before the last attempt is raised
        \* as HTTPStatusError inside the try
        e == IF outcome.kind = "response"
             THEN IF outcome.status_code \in RETRY_STATUS_CODES /\ attempt < MaxRetries
                  THEN Some("HTTPStatusError") ELSE None
             ELSE Some(outcome.exc)
    IN  IF ~IsSome(e) THEN "return"
        ELSE IF Get(e) \notin DEFAULT_RETRY_EXCEPTIONS THEN "raise"
        ELSE IF Get(e) = "HTTPStatusError" /\ outcome.status_code \notin RETRY_STATUS_CODES
             THEN "raise"
        ELSE IF attempt < MaxRetries THEN "sleep"
        ELSE "raise"

(***************************************************************************)
(* Store (data_access.py)                                                  *)
(***************************************************************************)
\* schemas.py:50-54 PartnerStats()
PartnerStats == [fetched |-> 0, transformed |-> 0, errors |-> 0, error_message |-> None]

\* schemas.py:57-62 JobStats().model_dump()
JobStats == [Partner_A |-> PartnerStats, Partner_B |-> PartnerStats,
             stored |-> 0, total_fetched |-> 0]

\* Mutant of create_job: the row is stored as already processing.
create_job_as_processing(jobsTable, jobId, siteId, date) ==
    jobsTable @@ (jobId :> [status |-> "processing",
                            input |-> [siteId |-> siteId, date |-> date],
                            stats |-> JobStats,
                            error |-> None,
                            finishedAt |-> None])

\* data_access.py:29-40
create_job(jobsTable, jobId, siteId, date) ==
    jobsTable @@ (jobId :> [status |-> "created",
                            input |-> [siteId |-> siteId, date |-> date],
                            stats |-> JobStats,
                            error |-> None,
                            finishedAt |-> None])

\* data_access.py:42-45: the row of that id with its key, or None
get_job_by_id(jobsTable, jobId) ==
    IF jobId \in DOMAIN jobsTable
    THEN Some([jobId |-> jobId] @@ jobsTable[jobId])
    ELSE None


\* Mutant of update_job_status: finishedAt is stamped by every status write.
update_job_status_always_stamps(jobsTable, jobId, status, stats_update, error, now) ==
    IF jobId \notin DOMAIN jobsTable THEN jobsTable
    ELSE
    LET job == jobsTable[jobId]
        stats1 == IF IsSome(stats_update) THEN Get(stats_update) @@ job.stats ELSE job.stats
        error1 == IF IsSome(error) THEN error ELSE job.error
    IN  [jobsTable EXCEPT ![jobId] =
            [job EXCEPT !.status = status, !.stats = stats1,
                        !.error = error1, !.finishedAt = Some(now)]]

\* Mutant of update_job_status: the row is not looked up by jobId, every job
\* of the table is written.
update_job_status_every_job(jobsTable, jobId, status, stats_update, error, now) ==
    [id \in DOMAIN jobsTable |->
        LET job == jobsTable[id]
            stats1 == IF IsSome(stats_update) THEN Get(stats_update) @@ job.stats
                      ELSE job.stats
            error1 == IF IsSome(error) THEN error ELSE job.error
            finishedAt1 == IF status \in {"finished", "failed"} THEN Some(now)
                           ELSE job.finishedAt
        IN  [job EXCEPT !.status = status, !.stats = stats1,
                        !.error = error1, !.finishedAt = finishedAt1]]

\* data_access.py:47-68; stats_update and error are optional
update_job_status(jobsTable, jobId, status, stats_update, error, now) ==
    IF jobId \notin DOMAIN jobsTable THEN jobsTable
    ELSE
    LET job == jobsTable[jobId]
        \* data_access.py:57 job.stats.update(stats_update)
        stats1 == IF IsSome(stats_update) THEN Get(stats_update) @@ job.stats ELSE job.stats
        error1 == IF IsSome(error) THEN error ELSE job.error
        finishedAt1 == IF status \in {"finished", "failed"} THEN Some(now)
                       ELSE job.finishedAt
    IN  [jobsTable EXCEPT ![jobId] =
            [job EXCEPT !.status = status, !.stats = stats1,
                        !.error = error1, !.finishedAt = finishedAt1]]

\* orm_models.py:81-83 and data_access.py:88: the rows in conflict with a key
Conflicting(rows, supplierDeliveryId, supplier) ==
    {r \in rows : r.supplierDeliveryId = supplierDeliveryId /\ r.supplier = supplier}

\* orm_models.py:59 autoincrement primary key
NextRowId(rows) == Cardinality(rows) + 1


NewRow(rows, data, jobId, source_data, data_errors, now) ==
    [id |-> NextRowId(rows), jobId |-> jobId,
     siteId |-> data.siteId, supplier |-> data.supplier,
     supplierDeliveryId |-> data.supplierDeliveryId,
     deliveredAt |-> data.deliveredAt, status |-> data.status,
     deliveryScore |-> data.deliveryScore, isSigned |-> data.isSigned,
     sourceData |-> source_data, dataErrors |-> data_errors,
     createdAt |-> now, updatedAt |-> now]

\* Mutant of insert_or_update_delivery_event: a plain INSERT on a table
\* without the unique constraint.
insert_delivery_event(rows, data, jobId, source_data, data_errors, now) ==
    rows \cup {NewRow(rows, data, jobId, source_data, data_errors, now)}

\* Mutant of insert_or_update_delivery_event: on conflict every column is
\* set from the new sighting.
insert_or_replace_delivery_event(rows, data, jobId, source_data, data_errors, now) ==
    LET hit == Conflicting(rows, data.supplierDeliveryId, data.supplier) IN
    IF hit # {}
    THEN {IF r \in hit
          THEN [NewRow(rows, data, jobId, source_data, data_errors, now)
                    EXCEPT !.id = r.id, !.createdAt = r.createdAt]
          ELSE r : r \in rows}
    ELSE rows \cup {NewRow(rows, data, jobId, source_data, data_errors, now)}

\* Mutant of insert_or_update_delivery_event: the conflict is looked for
\* among the rows of the writing job only.
insert_or_update_per_job(rows, data, jobId, source_data, data_errors, now) ==
    LET hit == {r \in Conflicting(rows, data.supplierDeliveryId, data.supplier) :
                    r.jobId = jobId}
    IN  IF hit # {}
        THEN {IF r \in hit THEN [r EXCEPT !.jobId = jobId, !.updatedAt = now] ELSE r :
                  r \in rows}
        ELSE rows \cup {NewRow(rows, data, jobId, source_data, data_errors, now)}

\* Mutant of insert_or_update_delivery_event: on conflict createdAt is set
\* too, from the values of the new sighting.
insert_or_update_touching_created(rows, data, jobId, source_data, data_errors, now) ==
    LET hit == Conflicting(rows, data.supplierDeliveryId, data.supplier) IN
    IF hit # {}
    THEN {IF r \in hit THEN [r EXCEPT !.jobId = jobId, !.updatedAt = now, !.createdAt = now]
          ELSE r : r \in rows}
    ELSE rows \cup {NewRow(rows, data, jobId, source_data, data_errors, now)}

\* data_access.py:70-98: INSERT ... ON CONFLICT (supplierDeliveryId, supplier)
\* DO UPDATE SET jobId, updatedAt, as one statement
insert_or_update_delivery_event(rows, data, jobId, source_data, data_errors, now) ==
    LET hit == Conflicting(rows, data.supplierDeliveryId, data.supplier) IN
    IF hit # {}
    THEN {IF r \in hit THEN [r EXCEPT !.jobId = jobId, !.updatedAt = now] ELSE r : r \in rows}
    ELSE rows \cup {NewRow(rows, data, jobId, source_data, data_errors, now)}

\* ORDER BY createdAt DESC: the orders in which the store may return the
\* rows S, rows of equal createdAt in any order
OrderByCreatedAtDesc(S) ==
    {seq \in [1..Cardinality(S) -> S] :
        /\ \A i, k \in 1..Cardinality(S) : i # k => seq[i] # seq[k]
        /\ \A i, k \in 1..Cardinality(S) : i < k => seq[i].createdAt >= seq[k].createdAt}

\* .limit(limit).offset(offset)
LimitOffset(seq, limit, offset) ==
    SubSeq(seq, offset + 1, IF offset + limit < Len(seq) THEN offset + limit ELSE Len(seq))

\* data_access.py:103-107: WHERE jobId = :jobId, of both statements
JobWhere(rows, jobId) == {r \in rows : r.jobId = jobId}

\* data_access.py:100-113; `ordered` is the order the store returns
get_deliveries_by_job_id(rows, jobId, limit, offset, ordered) ==
    [total_count |-> Cardinality(JobWhere(rows, jobId)),
     deliveries |-> LimitOffset(ordered, limit, offset)]

\* data_access.py:120-127: the filters of the SELECT; an empty string counts
\* as no filter (`if siteId:`), a score of any value as one (`is not None`)
SearchWhere(rows, siteId, status, min_score) ==
    {r \in rows :
        /\ (IsSome(siteId) /\ Get(siteId) # "") => r.siteId = Get(siteId)
        /\ (IsSome(status) /\ Get(status) # "") => r.status = Get(status)
        /\ IsSome(min_score) => r.deliveryScore >= Get(min_score)}

\* Mutant of SearchCountWhere: the count leaves out the status filter.
SearchCountWhereWithoutStatus(rows, siteId, status, min_score) ==
    {r \in rows :
        /\ (IsSome(siteId) /\ Get(siteId) # "") => r.siteId = Get(siteId)
        /\ IsSome(min_score) => r.deliveryScore >= Get(min_score)}

\* data_access.py:129-137: the filters of the SELECT count(*)
SearchCountWhere(rows, siteId, status, min_score) ==
    {r \in rows :
        /\ (IsSome(siteId) /\ Get(siteId) # "") => r.siteId = Get(siteId)
        /\ (IsSome(status) /\ Get(status) # "") => r.status = Get(status)
        /\ IsSome(min_score) => r.deliveryScore >= Get(min_score)}

\* data_access.py:115-143; `ordered` is the order the store returns
search_deliveries(rows, siteId, status, min_score, limit, offset, ordered) ==
    [total_count |-> Cardinality(SearchCountWhere(rows, siteId, status, min_score)),
     deliveries |-> LimitOffset(ordered, limit, offset)]

(***************************************************************************)
(* Partner fetch client (partners/client.py)                               *)
(***************************************************************************)
\* Response bodies: a JSON list of records, a body that is not JSON, or a
\* JSON number (on which len() raises TypeError).
ListBody(items) == [kind |-> "list", items |-> items]
NotJsonBody == [kind |-> "not_json", items |-> << >>]
NumberBody == [kind |-> "number", items |-> << >>]

\* client.py:96 stats.error_message and client.py:103
StatsMessage(kind, code, exc) == Some([kind |-> kind, code |-> code, exc |-> exc])
\* client.py:97-98, 104 job_error_message, and client.py:165
JobMessage(text, partner, code, exc) ==
    Some([text |-> text, partner |-> partner, code |-> code, exc |-> exc])

FetchReturn(stats, job_error_message) ==
    [raised |-> FALSE, exc |-> "", stats |-> stats, fatal |-> job_error_message]
FetchRaise(stats, exc) ==
    [raised |-> TRUE, exc |-> exc, stats |-> stats, fatal |-> None]
NoResult == FetchReturn(PartnerStats, None)

\* client.py:95-99: except httpx.HTTPStatusError
ExceptHTTPStatusError(partner_name, stats, code) ==
    FetchReturn([stats EXCEPT !.error_message = StatsMessage("HTTP Error", code, "")],
                JobMessage("terminal HTTP error", partner_name, code, ""))


\* Mutant of ExceptException: only the errors of the HTTP call are caught
\* (except httpx.RequestError), anything else leaves the fetch.
ExceptRequestError(partner_name, stats, exc) ==
    IF exc \in {"ConnectError", "TimeoutException", "ReadError"}
    THEN FetchReturn([stats EXCEPT !.error_message =
                                       StatsMessage("Critical Fetch Error", 0, exc)],
                     JobMessage("final error", partner_name, 0, exc))
    ELSE FetchRaise(stats, exc)

\* client.py:101-105: except Exception
ExceptException(partner_name, stats, exc) ==
    FetchReturn([stats EXCEPT !.error_message = StatsMessage("Critical Fetch Error", 0, exc)],
                JobMessage("final error", partner_name, 0, exc))

\* History of the upsert calls per key <<supplier, supplierDeliveryId>>: the
\* arguments and jobId of the first call, the jobId and payload of the
\* latest call, the number of calls, how many took the insert branch and
\* how many of the calls each job made.
KeyOf(data) == <<data.supplier, data.supplierDeliveryId>>
CallsBy(entry, jobId) == IF jobId \in DOMAIN entry.callsBy THEN entry.callsBy[jobId] ELSE 0
NoteUpsert(log, before, after, data, jobId, source_data, data_errors) ==
    LET k == KeyOf(data)
        inserted == IF Cardinality(after) > Cardinality(before) THEN 1 ELSE 0
    IN  IF k \in DOMAIN log
        THEN [log EXCEPT ![k] = [@ EXCEPT !.lastJob = jobId, !.lastSource = source_data,
                                          !.calls = @ + 1, !.inserts = @ + inserted,
                                          !.callsBy = (jobId :> CallsBy(log[k], jobId) + 1)
                                                      @@ @]]
        ELSE log @@ (k :> [data |-> data, source_data |-> source_data,
                           data_errors |-> data_errors, firstJob |-> jobId,
                           lastJob |-> jobId, lastSource |-> source_data,
                           calls |-> 1, inserts |-> inserted,
                           callsBy |-> (jobId :> 1)])

\* Mutant of ProcessRecord: transformed counts the rows the job added to the
\* table, not its upsert calls; a call that updates an existing row stores
\* without being counted.
ProcessRecordCountsNewRows(partner_name, record, idx, acc, job_id, dbFails) ==
    LET tr == transform_and_score(partner_name, record, acc.clock) IN
    IF ~tr.raised /\ IsSome(job_id) /\ idx \notin dbFails
    THEN LET rows1 == insert_or_update_delivery_event(
                          acc.rows, tr.event, Get(job_id), record, tr.data_errors,
                          acc.clock)
         IN  [acc EXCEPT !.rows = rows1,
                         !.log = NoteUpsert(@, acc.rows, rows1, tr.event, Get(job_id),
                                            record, tr.data_errors),
                         !.stats.transformed =
                             IF Cardinality(rows1) > Cardinality(acc.rows) THEN @ + 1 ELSE @]
    ELSE [acc EXCEPT !.stats.errors = @ + 1,
                     !.escaped = IF record.type = "object" THEN None
                                 ELSE Some("AttributeError")]

\* Mutant of ProcessRecord: only a record that fails in the transformer is
\* counted as an error (except ValidationError), a failing upsert is not.
ProcessRecordCountsValidationOnly(partner_name, record, idx, acc, job_id, dbFails) ==
    LET tr == transform_and_score(partner_name, record, acc.clock) IN
    IF ~tr.raised /\ IsSome(job_id) /\ idx \notin dbFails
    THEN LET rows1 == insert_or_update_delivery_event(
                          acc.rows, tr.event, Get(job_id), record, tr.data_errors,
                          acc.clock)
         IN  [acc EXCEPT !.rows = rows1,
                         !.log = NoteUpsert(@, acc.rows, rows1, tr.event, Get(job_id),
                                            record, tr.data_errors),
                         !.stats.transformed = @ + 1]
    ELSE IF tr.raised
    THEN [acc EXCEPT !.stats.errors = @ + 1,
                     !.escaped = IF record.type = "object" THEN None
                                 ELSE Some("AttributeError")]
    ELSE acc

\* client.py:78-93, one record of the loop. acc carries the stats, the store
\* rows, the time and the upsert history; dbFails are the positions of the
\* response at which the store raises on execute. The except clause counts
\* the error and logs record.get(...), which raises AttributeError on a
\* record that is no JSON object: that exception leaves the loop.
ProcessRecord(partner_name, record, idx, acc, job_id, dbFails) ==
    LET tr == transform_and_score(partner_name, record, acc.clock) IN
    \* client.py:84 repo.db.info['job_id'] raises KeyError when it is not set
    IF ~tr.raised /\ IsSome(job_id) /\ idx \notin dbFails
    THEN LET rows1 == insert_or_update_delivery_event(
                          acc.rows, tr.event, Get(job_id), record, tr.data_errors,
                          acc.clock)
         IN  [acc EXCEPT !.rows = rows1,
                         !.log = NoteUpsert(@, acc.rows, rows1, tr.event, Get(job_id),
                                            record, tr.data_errors),
                         !.stats.transformed = @ + 1]
    ELSE [acc EXCEPT !.stats.errors = @ + 1,
                     !.escaped = IF record.type = "object" THEN None
                                 ELSE Some("AttributeError")]

\* client.py:78: for record in raw_records
RECURSIVE ProcessRecords(_, _, _, _, _, _)
ProcessRecords(partner_name, raw_records, idx, acc, job_id, dbFails) ==
    IF idx > Len(raw_records) \/ IsSome(acc.escaped) THEN acc
    ELSE ProcessRecords(partner_name, raw_records, idx + 1,
                        ProcessRecord(partner_name, raw_records[idx], idx, acc,
                                      job_id, dbFails),
                        job_id, dbFails)

\* client.py:67-107 after `await self._fetch_raw_data(...)` has returned the
\* response or raised: the fetch's result and its effect on the store.
\* decision is the wrapper's "return" or "raise" for the last outcome.
fetch_partner_data(partner_name, decision, outcome, rows, now, log, job_id, dbFails) ==
    LET acc0 == [stats |-> PartnerStats, rows |-> rows, clock |-> now, log |-> log,
                 escaped |-> None]
        same(result) == [result |-> result, rows |-> rows, log |-> log]
    IN  IF decision = "raise"
        THEN same(ExceptException(partner_name, PartnerStats, outcome.exc))
        \* client.py:73 raise_for_status()
        ELSE IF ~(outcome.status_code >= 200 /\ outcome.status_code <= 299)
        THEN same(ExceptHTTPStatusError(partner_name, PartnerStats, outcome.status_code))
        \* client.py:75 response.json()
        ELSE IF outcome.body.kind = "not_json"
        THEN same(ExceptException(partner_name, PartnerStats, "JSONDecodeError"))
        \* client.py:76 len(raw_records)
        ELSE IF outcome.body.kind # "list"
        THEN same(ExceptException(partner_name, PartnerStats, "TypeError"))
        ELSE
        LET raw_records == outcome.body.items
            acc == ProcessRecords(partner_name, raw_records, 1,
                                  [acc0 EXCEPT !.stats.fetched = Len(raw_records)],
                                  job_id, dbFails)
        IN  [result |-> IF IsSome(acc.escaped)
                        THEN ExceptException(partner_name, acc.stats, Get(acc.escaped))
                        ELSE FetchReturn(acc.stats, None),
             rows |-> acc.rows, log |-> acc.log]

(***************************************************************************)
(* Job orchestrator (partners/client.py JobManager, main.py)               *)
(***************************************************************************)

\* Mutant of gather: the results in the order in which the tasks ended
\* (asyncio.as_completed).
as_completed(tasks, fetches, arrived) ==
    [i \in 1..Len(tasks) |-> fetches[arrived[i]].result]

\* asyncio.gather(*tasks), client.py:129-134: the results in the order of
\* the task list, whatever the order `arrived` in which the tasks ended
gather(tasks, fetches, arrived) == [i \in 1..Len(tasks) |-> fetches[tasks[i]].result]

\* Mutant of Aggregate: `stored` adds up the fetched counts.
RECURSIVE AggregateStoredIsFetched(_, _, _)
AggregateStoredIsFetched(results, i, acc) ==
    IF i > Len(results) THEN acc
    ELSE
    LET partner_name == PARTNER_CONFIG[i]
        partner_stats == results[i].stats
        fatal_error == results[i].fatal
        stats1 == (partner_name :> partner_stats) @@ acc.final_stats
        stats2 == [stats1 EXCEPT !.total_fetched = @ + partner_stats.fetched,
                                 !.stored = @ + partner_stats.fetched]
    IN  AggregateStoredIsFetched(results, i + 1,
                  [final_stats |-> stats2,
                   has_fatal_error |-> acc.has_fatal_error \/ IsSome(fatal_error),
                   overall_error_message |->
                       IF IsSome(fatal_error) /\ ~IsSome(acc.overall_error_message)
                       THEN fatal_error ELSE acc.overall_error_message])

\* client.py:143-153, the loop over enumerate(results) from index i on
RECURSIVE Aggregate(_, _, _)
Aggregate(results, i, acc) ==
    IF i > Len(results) THEN acc
    ELSE
    LET partner_name == PARTNER_CONFIG[i]
        partner_stats == results[i].stats
        fatal_error == results[i].fatal
        stats1 == (partner_name :> partner_stats) @@ acc.final_stats
        stats2 == [stats1 EXCEPT !.total_fetched = @ + partner_stats.fetched,
                                 !.stored = @ + partner_stats.transformed]
    IN  Aggregate(results, i + 1,
                  [final_stats |-> stats2,
                   has_fatal_error |-> acc.has_fatal_error \/ IsSome(fatal_error),
                   overall_error_message |->
                       IF IsSome(fatal_error) /\ ~IsSome(acc.overall_error_message)
                       THEN fatal_error ELSE acc.overall_error_message])

\* client.py:136-141
Aggregate0 ==
    [final_stats |-> [stored |-> 0, total_fetched |-> 0],
     has_fatal_error |-> FALSE,
     overall_error_message |-> None]


\* Mutant of FinalStatus: any fatal partner error fails the job.
FinalStatusAnyFatal(agg) ==
    IF agg.has_fatal_error THEN "failed" ELSE "finished"

\* client.py:155-160
FinalStatus(agg) ==
    IF agg.has_fatal_error /\ agg.final_stats.stored = 0 THEN "failed" ELSE "finished"


\* Mutant of RunStart: the write of "processing" is left out.
RunStartWithoutWrite(jobsTable, job_id, now) == jobsTable

\* client.py:124
RunStart(jobsTable, job_id, now) ==
    update_job_status(jobsTable, job_id, "processing", None, None, now)


\* Mutant of RunFinish: the error text is written only with status failed.
RunFinishErrorIfFailed(jobsTable, job_id, results, now) ==
    LET agg == Aggregate(results, 1, Aggregate0) IN
    update_job_status(jobsTable, job_id, FinalStatus(agg), Some(agg.final_stats),
                      IF FinalStatus(agg) = "failed" THEN agg.overall_error_message ELSE None,
                      now)

\* client.py:136-161: aggregation and the terminal status write
RunFinish(jobsTable, job_id, results, now) ==
    LET agg == Aggregate(results, 1, Aggregate0) IN
    update_job_status(jobsTable, job_id, FinalStatus(agg),
                      Some(agg.final_stats), agg.overall_error_message, now)


\* Mutant of RunExcept: the handler logs and writes nothing.
RunExceptLogOnly(jobsTable, job_id, exc, now) == jobsTable

\* Mutant of RunExcept: the job is marked failed without a message.
RunExceptWithoutMessage(jobsTable, job_id, exc, now) ==
    update_job_status(jobsTable, job_id, "failed", None, None, now)

\* client.py:163-165: except Exception
RunExcept(jobsTable, job_id, exc, now) ==
    update_job_status(jobsTable, job_id, "failed", None,
                      JobMessage("Catastrophic job runner failure", "", 0, exc), now)

(***************************************************************************)
(* What the environment can do                                             *)
(***************************************************************************)
JobIds == 1..MaxJobs
\* the siteId and date of a request (schemas.py:13-25)
Sites == {"S1", "S2"}
Dates == {"2025-10-27"}

A1 == JObject([order_id |-> JStr("d1"), site_id |-> JStr("S1"),
               deliveryStatus |-> JStr("DELIVERED"), podSigned |-> JBool(TRUE),
               deliveryTime |-> JStr("2025-10-27T08:00:00Z")])
A2 == JObject([order_id |-> JStr("d1"), site_id |-> JStr("S2"),
               deliveryStatus |-> JStr("In Transit"),
               deliveryTime |-> JStr("27/10/2025")])
A3 == JObject([order_id |-> JStr("d2"), deliveryStatus |-> JStr("Cancelled")])
B1 == JObject([reference_id |-> JStr("d1"), location |-> [site_ref |-> JStr("S1")],
               status |-> [code |-> JStr("done")], proof |-> [signed |-> JBool(TRUE)],
               timestamps |-> [delivery_completion |-> JInt(3)]])
B2 == JObject([reference_id |-> JStr("d1"), location |-> [site_ref |-> JStr("S2")],
               status |-> [code |-> JStr("Cancelled")]])
B3 == JObject([location |-> [site_ref |-> JStr("S1")], status |-> [code |-> JStr("done")]])

\* the records a partner's response may carry
RawPoolA == {A1, A2, A3, JScalar}
RawPoolB == {B1, B2, B3, JScalar}

RECURSIVE SeqsUpTo(_, _)
SeqsUpTo(S, n) ==
    IF n = 0 THEN {<< >>}
    ELSE LET shorter == SeqsUpTo(S, n - 1)
         IN  shorter \cup {Append(s, x) : s \in shorter, x \in S}

\* The outcomes of one HTTP call (client.py:51 with the 5 s timeout of
\* client.py:40): a 2xx response with a body, an error status, or an
\* exception of httpx.
ErrorStatusCodes == {404, 503}
HttpxExceptions == {"ConnectError", "TimeoutException", "ReadError"}
OutcomesOver(pool, len, excs) ==
    {Response(200, ListBody(items)) : items \in SeqsUpTo(pool, len)}
        \cup {Response(c, NotJsonBody) : c \in ErrorStatusCodes}
        \cup {Exception(e, 0) : e \in excs}

\* every outcome of the model, for a single job
OutcomesA == OutcomesOver(RawPoolA, MaxRecords, HttpxExceptions)
                 \cup {Response(200, NotJsonBody), Response(200, NumberBody)}
OutcomesB == OutcomesOver(RawPoolB, MaxRecords, HttpxExceptions)
                 \cup {Response(200, NotJsonBody), Response(200, NumberBody)}
Outcomes(partner) == IF partner = PARTNER_A THEN OutcomesA ELSE OutcomesB

\* one outcome of every kind: responses of at most one record
KindOutcomesA == OutcomesOver({A1, A3, JScalar}, 1, HttpxExceptions)
                     \cup {Response(200, NotJsonBody)}
KindOutcomesB == OutcomesOver({B1, B3}, 1, HttpxExceptions)
                     \cup {Response(200, NotJsonBody)}
KindOutcomes(partner) == IF partner = PARTNER_A THEN KindOutcomesA ELSE KindOutcomesB

\* the outcomes while jobs overlap: responses of at most one valid record
LightOutcomesA == OutcomesOver({A1, A2}, 1, {"TimeoutException"})
LightOutcomesB == OutcomesOver({B1}, 1, {"TimeoutException"})
LightOutcomes(partner) == IF partner = PARTNER_A THEN LightOutcomesA ELSE LightOutcomesB

(***************************************************************************)
(* State                                                                   *)
(***************************************************************************)
VARIABLES
    jobs,            \* table job_status: jobId -> row (orm_models.py:24-50)
    deliveries,      \* table delivery_events: the set of rows (orm_models.py:53-86)
    clock,           \* datetime.now(timezone.utc)
    task,            \* per job: the background task running run_fetch_job
    fetch,           \* per job and partner: the fetch_partner_data coroutine
    arrived,         \* per job: the partners whose fetch has ended, in that order
    info,            \* per store session: Session.info['job_id']
    upserts,         \* history: the upsert calls per delivery key
    terminalWrites,  \* history: per job, the status writes of finished or failed
    request,         \* history: per job, the body of its POST /fetch request
    reply,           \* the response to the latest GET /jobs/{jobId}
    retry,           \* a call of a function wrapped by async_retry, on its own
    probe            \* a call of a pure function: its arguments and its value

vars == <<jobs, deliveries, clock, task, fetch, arrived, info, upserts, terminalWrites,
          request, reply, retry, probe>>

\* Mutant of SessionOf: one session for the whole process.
SharedSession(j) == 1

\* database.py:20-26 and main.py:52: every request gets a session of its own
SessionOf(j) == j

IdleFetch == [pc |-> "idle", attempt |-> 0, result |-> NoResult]

\* no request answered yet, no wrapped call and no function call under way
NoReply == [status_code |-> 0, body |-> None]
NoRetry == [pc |-> "none", attempt |-> 0, calls |-> 0, outcomes |-> << >>,
            sleeps |-> << >>, result |-> None]
NoProbe == [op |-> "none", arg |-> << >>, done |-> FALSE, out |-> << >>]

\* the service after start-up: empty tables, no task
InitService ==
    /\ jobs = << >>
    /\ deliveries = {}
    /\ clock = 1
    /\ task = [j \in JobIds |-> "none"]
    /\ fetch = [j \in JobIds |-> [p \in Partners |-> IdleFetch]]
    /\ arrived = [j \in JobIds |-> << >>]
    /\ info = [s \in JobIds |-> None]
    /\ upserts = << >>
    /\ terminalWrites = [j \in JobIds |-> 0]
    /\ request = << >>
    /\ reply = NoReply

Init ==
    /\ InitService
    /\ retry = NoRetry
    /\ probe = NoProbe

\* main.py:59 uuid.uuid4(): an identifier no job has yet
uuid4 == Cardinality(DOMAIN jobs) + 1

\* main.py:49-80 POST /fetch: create the job, queue the background task
start_fetch_job(siteId, date) ==
    LET job_id == uuid4 IN
    /\ job_id \in JobIds
    /\ jobs' = create_job(jobs, job_id, siteId, date)
    /\ task' = [task EXCEPT ![job_id] = "queued"]
    /\ request' = request @@ (job_id :> [siteId |-> siteId, date |-> date])
    /\ UNCHANGED <<deliveries, clock, fetch, arrived, info, upserts, terminalWrites>>
    /\ UNCHANGED <<reply, retry, probe>>

\* client.py:117-134 run_fetch_job up to `await asyncio.gather(*tasks)`
run_fetch_job(j) ==
    /\ task[j] = "queued"
    /\ jobs' = RunStart(jobs, j, clock)
    /\ info' = [info EXCEPT ![SessionOf(j)] = Some(j)]
    /\ fetch' = [fetch EXCEPT ![j] = [p \in Partners |-> [IdleFetch EXCEPT !.pc = "calling"]]]
    /\ task' = [task EXCEPT ![j] = "gathering"]
    /\ UNCHANGED <<deliveries, clock, arrived, upserts, terminalWrites>>
    /\ UNCHANGED <<request, reply, retry, probe>>

\* the attempts that have failed and led to a sleep so far
Faults ==
    LET n(f) == f.attempt + (IF f.pc = "sleeping" THEN 1 ELSE 0)
    IN  Cardinality({x \in JobIds \X Partners \X (1..(MaxRetries + 1)) :
                         x[3] <= n(fetch[x[1]][x[2]])})

\* client.py:42-55 and retry.py:41-76: one attempt of the HTTP call ends with
\* an outcome of `outs`; the wrapper sleeps, or the fetch goes on to its end
\* (client.py:73-107), which has no suspension point. The environment
\* injects at most `budget` failures that lead to a sleep.
Attempt(j, p, outs, budget) ==
    /\ fetch[j][p].pc = "calling"
    /\ UNCHANGED <<request, reply, retry, probe>>
    /\ \E outcome \in outs :
       \E dbFails \in SUBSET (1..Len(outcome.body.items)) :
         LET decision == wrapper(fetch[j][p].attempt, outcome) IN
         IF decision = "sleep"
         THEN /\ Faults < budget
              /\ dbFails = {}
              /\ fetch' = [fetch EXCEPT ![j][p].pc = "sleeping"]
              /\ UNCHANGED <<jobs, deliveries, clock, task, arrived, info, upserts,
                             terminalWrites>>
         ELSE LET end == fetch_partner_data(p, decision, outcome, deliveries, clock,
                                            upserts, info[SessionOf(j)], dbFails)
              IN  /\ fetch' = [fetch EXCEPT ![j][p].pc =
                                                IF end.result.raised THEN "raised"
                                                ELSE "returned",
                                            ![j][p].result = end.result]
                  /\ deliveries' = end.rows
                  /\ upserts' = end.log
                  /\ arrived' = [arrived EXCEPT ![j] = Append(@, p)]
                  /\ UNCHANGED <<jobs, clock, task, info, terminalWrites>>

\* retry.py:73 `await asyncio.sleep(delay)` returns: the next attempt
Sleep(j, p) ==
    /\ fetch[j][p].pc = "sleeping"
    /\ fetch' = [fetch EXCEPT ![j][p].pc = "calling", ![j][p].attempt = @ + 1]
    /\ UNCHANGED <<jobs, deliveries, clock, task, arrived, info, upserts, terminalWrites>>
    /\ UNCHANGED <<request, reply, retry, probe>>

\* Mutant of Finish: the results are aggregated as soon as one fetch has
\* ended (first-to-finish instead of the barrier of gather).
FinishOnFirstResult(j) ==
    /\ task[j] = "gathering"
    /\ \E p \in Partners : fetch[j][p].pc \in {"returned", "raised"}
    /\ \E bug \in BOOLEAN :
         LET raisedBy == {p \in Partners : fetch[j][p].pc = "raised"} IN
         jobs' = IF raisedBy # {}
                 THEN RunExcept(jobs, j, fetch[j][CHOOSE p \in raisedBy : TRUE].result.exc,
                                clock)
                 ELSE IF bug THEN RunExcept(jobs, j, "Exception", clock)
                 ELSE RunFinish(jobs, j, gather(PARTNER_CONFIG, fetch[j], arrived[j]), clock)
    /\ terminalWrites' = [terminalWrites EXCEPT ![j] = @ + 1]
    /\ task' = [task EXCEPT ![j] = "done"]
    /\ UNCHANGED <<deliveries, clock, fetch, arrived, info, upserts>>
    /\ UNCHANGED <<request, reply, retry, probe>>

\* client.py:134-165: gather returns when every fetch has returned, or raises
\* as soon as one has raised; aggregation, and the terminal status write.
\* bug: an exception raised by the aggregation or by the terminal status
\* write (client.py:136-161), which leaves the row as it was.
Finish(j) ==
    /\ task[j] = "gathering"
    /\ \/ \A p \in Partners : fetch[j][p].pc = "returned"
       \/ \E p \in Partners : fetch[j][p].pc = "raised"
    /\ \E bug \in BOOLEAN :
         LET raisedBy == {p \in Partners : fetch[j][p].pc = "raised"} IN
         jobs' = IF raisedBy # {}
                 THEN RunExcept(jobs, j, fetch[j][CHOOSE p \in raisedBy : TRUE].result.exc,
                                clock)
                 ELSE IF bug THEN RunExcept(jobs, j, "Exception", clock)
                 ELSE RunFinish(jobs, j, gather(PARTNER_CONFIG, fetch[j], arrived[j]), clock)
    /\ terminalWrites' = [terminalWrites EXCEPT ![j] = @ + 1]
    /\ task' = [task EXCEPT ![j] = "done"]
    /\ UNCHANGED <<deliveries, clock, fetch, arrived, info, upserts>>
    /\ UNCHANGED <<request, reply, retry, probe>>

(***************************************************************************)
(* Spec: up to MaxJobs overlapping jobs for one site, partners answering   *)
(* with at most one record and at most MaxFaults transient failures,       *)
(* within one reading of the clock.                                        *)
(***************************************************************************)
Next ==
    \/ \E date \in Dates : start_fetch_job("S1", date)
    \/ \E j \in JobIds : run_fetch_job(j)
    \/ \E j \in JobIds, p \in Partners : Attempt(j, p, LightOutcomes(p), MaxFaults)
    \/ \E j \in JobIds, p \in Partners : Sleep(j, p)
    \/ \E j \in JobIds : Finish(j)

Spec == Init /\ [][Next]_vars

(***************************************************************************)
(* SpecOneJob: one job, partners answering with every outcome of the model *)
(* and failing as often as they like, within one reading of the clock.     *)
(***************************************************************************)
Unlimited == 2 * Cardinality(Partners) * (MaxRetries + 1)

NextOneJob ==
    \/ \E date \in Dates : uuid4 = 1 /\ start_fetch_job("S1", date)
    \/ \E j \in JobIds : run_fetch_job(j)
    \/ \E j \in JobIds, p \in Partners : Attempt(j, p, Outcomes(p), Unlimited)
    \/ \E j \in JobIds, p \in Partners : Sleep(j, p)
    \/ \E j \in JobIds : Finish(j)

SpecOneJob == Init /\ [][NextOneJob]_vars

(***************************************************************************)
(* FairSpec: one job, every kind of outcome with at most one record in a   *)
(* response, and the scheduling of the event loop.                         *)
(***************************************************************************)
NextFair ==
    \/ \E date \in Dates : uuid4 = 1 /\ start_fetch_job("S1", date)
    \/ \E j \in JobIds : run_fetch_job(j)
    \/ \E j \in JobIds, p \in Partners : Attempt(j, p, KindOutcomes(p), Unlimited)
    \/ \E j \in JobIds, p \in Partners : Sleep(j, p)
    \/ \E j \in JobIds : Finish(j)

\* The event loop runs every task that can run; an HTTP call ends within
\* its timeout and a sleep within its delay: a job whose run, fetches or
\* sleeps can take a step eventually takes one.
JobStep(j) ==
    \/ run_fetch_job(j)
    \/ \E p \in Partners : Attempt(j, p, KindOutcomes(p), Unlimited)
    \/ \E p \in Partners : Sleep(j, p)
    \/ Finish(j)

FairSpec == Init /\ [][NextFair]_vars /\ \A j \in JobIds : WF_vars(JobStep(j))

(***************************************************************************)
(* RetrySpec: one call of a function wrapped by async_retry (retry.py),    *)
(* with every sequence of outcomes of the wrapped function and every       *)
(* jittered delay, in whole seconds.                                       *)
(***************************************************************************)
\* retry.py:22 base_backoff_time: float = 1.0
base_backoff_time == 1
\* retry.py:24 jitter: bool = True
jitter == TRUE

\* Mutant of backoff: the delay triples with every attempt.
backoff_tripling(attempt) == base_backoff_time * (3 ^ attempt)

\* retry.py:65 delay = base_backoff_time * (2 ** attempt)
backoff(attempt) == base_backoff_time * (2 ^ attempt)

\* retry.py:66-67 random.uniform(0, delay)
Delays(attempt) == IF jitter THEN 0..backoff(attempt) ELSE {backoff(attempt)}

\* what the wrapped function can do in one call: return a response with a
\* status code, or raise (an HTTPStatusError carries its response's code)
WrappedOutcomes ==
    {Response(c, NoBody) : c \in {200, 404} \cup RETRY_STATUS_CODES}
        \cup {Exception(e, 0) : e \in HttpxExceptions}
        \cup {Exception("HTTPStatusError", c) : c \in ErrorStatusCodes}

\* retry.py:39 the wrapper is called
async_retry_call ==
    /\ retry.pc = "none"
    /\ retry' = [retry EXCEPT !.pc = "calling"]
    /\ UNCHANGED <<jobs, deliveries, clock, task, fetch, arrived, info, upserts,
                   terminalWrites, request, reply, probe>>

\* retry.py:41-76 one iteration of the loop: `await func(...)` ends with an
\* outcome; the wrapper returns it, raises it, or computes a delay and
\* sleeps
await_func ==
    /\ retry.pc = "calling"
    /\ \E outcome \in WrappedOutcomes :
         LET decision == wrapper(retry.attempt, outcome)
             called == [retry EXCEPT !.calls = @ + 1, !.outcomes = Append(@, outcome)]
         IN  IF decision = "sleep"
             THEN \E delay \in Delays(retry.attempt) :
                      retry' = [called EXCEPT !.pc = "sleeping",
                                              !.sleeps = Append(@, delay)]
             ELSE retry' = [called EXCEPT
                               !.pc = IF decision = "return" THEN "returned" ELSE "raised",
                               !.result = Some(outcome)]
    /\ UNCHANGED <<jobs, deliveries, clock, task, fetch, arrived, info, upserts,
                   terminalWrites, request, reply, probe>>

\* retry.py:73 `await asyncio.sleep(delay)` returns: the next iteration
asyncio_sleep ==
    /\ retry.pc = "sleeping"
    /\ retry' = [retry EXCEPT !.pc = "calling", !.attempt = @ + 1]
    /\ UNCHANGED <<jobs, deliveries, clock, task, fetch, arrived, info, upserts,
                   terminalWrites, request, reply, probe>>

NextRetry ==
    \/ async_retry_call
    \/ await_func
    \/ asyncio_sleep

RetrySpec == Init /\ [][NextRetry]_vars

(***************************************************************************)
(* FunSpec: one call of a function of transformers.py, or of the fetch of  *)
(* a one-record response into an empty store, on arguments drawn from the  *)
(* cases below.                                                            *)
(***************************************************************************)
\* str.upper(), to spell a status in capitals
UpperChar(c) ==
    IF \E i \in 1..Len(LowerChars) : LowerChars[i] = c
    THEN UpperChars[CHOOSE i \in 1..Len(LowerChars) : LowerChars[i] = c]
    ELSE c
Upper(cs) == [i \in 1..Len(cs) |-> UpperChar(cs[i])]

\* Raw statuses built from the keywords of transformers.py:27-31: a keyword
\* inside a longer word, two keywords in either order, in lower case and in
\* capitals; and statuses that hold no keyword. `has` lists the categories
\* whose keywords the text was built from.
Keywords ==
    {[k |-> k, cat |-> "delivered"] : k \in DeliveredKeywords}
        \cup {[k |-> k, cat |-> "cancelled"] : k \in CancelledKeywords}
        \cup {[k |-> k, cat |-> "pending"] : k \in PendingKeywords}
PlainStatuses ==
    {<< >>, Chars("UNKNOWN"), Chars("at depot"), <<"d", "e", "l", "i", "v", "e", "r">>,
     <<"D", "o", " ", "n", "e">>}
StatusCases ==
    LET lower == {[text |-> <<"x">> \o a.k \o <<"y">>, has |-> {a.cat}] : a \in Keywords}
                     \cup {[text |-> a.k \o <<" ">> \o b.k, has |-> {a.cat, b.cat}] :
                               a \in Keywords, b \in Keywords}
                     \cup {[text |-> t, has |-> {}] : t \in PlainStatuses}
    IN  lower \cup {[text |-> Upper(c.text), has |-> c.has] : c \in lower}

\* Raw records of both partners, built field by field. `time` tells whether
\* the delivery timestamp is "ok", "missing" or "unparsable", `rest` whether
\* the other fields are "valid".
Absent == [t |-> "absent", s |-> "", n |-> 0, b |-> FALSE]
With(d, key, v) == IF v = Absent THEN d ELSE (key :> v) @@ d
TimesA ==
    {[v |-> JStr(s), time |-> "ok"] : s \in IsoTimes}
        \cup {[v |-> v, time |-> "missing"] : v \in {Absent, JNull, JStr("")}}
        \cup {[v |-> v, time |-> "unparsable"] : v \in {JStr("27/10/2025"), JInt(5)}}
TimesB ==
    {[v |-> v, time |-> "ok"] : v \in {JInt(3), JStr("4")}}
        \cup {[v |-> v, time |-> "missing"] : v \in {Absent, JNull, JStr(""), JInt(0)}}
        \cup {[v |-> v, time |-> "unparsable"] : v \in {JStr("27/10/2025")}}
StatusFields ==
    {[v |-> v, rest |-> "valid"] : v \in {Absent, JStr("DELIVERED"), JStr("In Transit")}}
        \cup {[v |-> JInt(1), rest |-> "invalid"]}
SignedFields ==
    {[v |-> v, rest |-> "valid"] : v \in {Absent, JBool(TRUE), JBool(FALSE), JStr("yes")}}
        \cup {[v |-> JStr("maybe"), rest |-> "invalid"]}
SiteFields ==
    {[v |-> JStr("S1"), rest |-> "valid"], [v |-> JStr(""), rest |-> "valid"],
     [v |-> Absent, rest |-> "invalid"]}
IdFields ==
    {[v |-> JStr("d1"), rest |-> "valid"], [v |-> JStr(""), rest |-> "valid"],
     [v |-> JInt(7), rest |-> "invalid"]}
RestOf(fields) == IF \A f \in fields : f.rest = "valid" THEN "valid" ELSE "invalid"

RecordCasesA ==
    {[partner |-> PARTNER_A,
      record |-> JObject(With(With(With(With(With(<< >>, "deliveryTime", t.v),
                     "deliveryStatus", st.v), "podSigned", sg.v), "site_id", si.v),
                     "order_id", id.v)),
      time |-> t.time, rest |-> RestOf({st, sg, si, id})] :
        t \in TimesA, st \in StatusFields, sg \in SignedFields, si \in SiteFields,
        id \in IdFields}
RecordCasesB ==
    {[partner |-> PARTNER_B,
      record |-> JObject(With(With(With(With(With(<< >>,
                     "timestamps", With(<< >>, "delivery_completion", t.v)),
                     "status", With(<< >>, "code", st.v)),
                     "proof", With(<< >>, "signed", sg.v)),
                     "location", With(<< >>, "site_ref", si.v)),
                     "reference_id", id.v)),
      time |-> t.time, rest |-> RestOf({st, sg, si, id})] :
        t \in TimesB, st \in StatusFields, sg \in SignedFields, si \in SiteFields,
        id \in IdFields}
RecordCases == RecordCasesA \cup RecordCasesB

ProbeCases ==
    {[op |-> "_calculate_score", arg |-> [is_delivered |-> d, is_signed |-> g]] :
         d \in BOOLEAN, g \in BOOLEAN}
        \cup {[op |-> "_normalize_status", arg |-> c] : c \in StatusCases}
        \cup {[op |-> "transform_and_score", arg |-> c] : c \in RecordCases}
        \cup {[op |-> "fetch_partner_data", arg |-> c] : c \in RecordCases}

\* the arguments of the call are chosen
Choose ==
    /\ probe.op = "none"
    /\ \E c \in ProbeCases : probe' = [op |-> c.op, arg |-> c.arg, done |-> FALSE, out |-> << >>]
    /\ UNCHANGED <<jobs, deliveries, clock, task, fetch, arrived, info, upserts,
                   terminalWrites, request, reply, retry>>

\* the function is called on the chosen arguments and returns
Call ==
    /\ probe.op # "none" /\ ~probe.done
    /\ probe' =
         [probe EXCEPT
            !.done = TRUE,
            !.out =
              CASE probe.op = "_calculate_score" ->
                       _calculate_score(probe.arg.is_delivered, probe.arg.is_signed)
                [] probe.op = "_normalize_status" -> NormalizeChars(probe.arg.text)
                [] probe.op = "transform_and_score" ->
                       transform_and_score(probe.arg.partner, probe.arg.record, clock)
                [] probe.op = "fetch_partner_data" ->
                       fetch_partner_data(probe.arg.partner, "return",
                                          Response(200, ListBody(<<probe.arg.record>>)),
                                          deliveries, clock, upserts, Some(1), {})]
    /\ UNCHANGED <<jobs, deliveries, clock, task, fetch, arrived, info, upserts,
                   terminalWrites, request, reply, retry>>

NextFun ==
    \/ Choose
    \/ Call

FunSpec == Init /\ [][NextFun]_vars

(***************************************************************************)
(* TwoJobsSpec: MaxJobs submissions for the same site and date, whose runs *)
(* interleave; each partner answers with a record, with a fatal status or, *)
(* at most MaxFaults times, with a timeout; the event loop runs every task *)
(* that can run.                                                           *)
(***************************************************************************)
TwoJobsOutcomes(partner) ==
    {Response(200, ListBody(<<IF partner = PARTNER_A THEN A1 ELSE B1>>)),
     Response(404, NotJsonBody), Exception("TimeoutException", 0)}

\* the steps of the background task of job j, in an environment that
\* injects at most `budget` transient failures
RunOf(j, budget) ==
    \/ run_fetch_job(j)
    \/ \E p \in Partners : Attempt(j, p, TwoJobsOutcomes(p), budget)
    \/ \E p \in Partners : Sleep(j, p)
    \/ Finish(j)

NextTwoJobs ==
    \/ \E date \in Dates : start_fetch_job("S1", date)
    \/ \E j \in JobIds : RunOf(j, MaxFaults)

\* The event loop runs every task that can run, whatever the environment
\* has done so far: a job whose run, fetches or sleeps can take a step
\* eventually takes one.
TwoJobsSpec ==
    Init /\ [][NextTwoJobs]_vars /\ \A j \in JobIds : WF_vars(RunOf(j, Unlimited))

(***************************************************************************)
(* ApiSpec: submissions for every site, the runs of the jobs with partners *)
(* that answer at once, and reads of GET /jobs/{jobId} at any moment, of   *)
(* the ids in use and of one that is never given to a job.                 *)
(***************************************************************************)
ReadIds == 1..(MaxJobs + 1)

ApiOutcomes(partner) ==
    {Response(200, ListBody(<<IF partner = PARTNER_A THEN A1 ELSE B1>>)),
     Response(404, NotJsonBody)}

\* main.py:83-107 GET /jobs/{jobId}; createdAt is left out of the body
get_job_status(jobId) ==
    LET job == get_job_by_id(jobs, jobId) IN
    /\ reply' = IF ~IsSome(job)
                THEN [status_code |-> 404, body |-> None]
                ELSE [status_code |-> 200,
                      body |-> Some([jobId |-> Get(job).jobId,
                                     status |-> Get(job).status,
                                     siteId |-> Get(job).input.siteId,
                                     date |-> Get(job).input.date,
                                     finishedAt |-> Get(job).finishedAt,
                                     stats |-> Get(job).stats,
                                     error |-> Get(job).error])]
    /\ UNCHANGED <<jobs, deliveries, clock, task, fetch, arrived, info, upserts,
                   terminalWrites, request, retry, probe>>

NextApi ==
    \/ \E siteId \in Sites, date \in Dates : start_fetch_job(siteId, date)
    \/ \E jobId \in ReadIds : get_job_status(jobId)
    \/ \E j \in JobIds : run_fetch_job(j)
    \/ \E j \in JobIds, p \in Partners : Attempt(j, p, ApiOutcomes(p), 0)
    \/ \E j \in JobIds : Finish(j)

ApiSpec == Init /\ [][NextApi]_vars

(***************************************************************************)
(* QuerySpec: the runs of MaxJobs jobs whose partners answer at once with  *)
(* one record or a fatal status, and one request of a client, at any       *)
(* moment: the listing of a job's results or the filtered search, with     *)
(* every page of at most MaxLimit rows up to offset MaxOffset.             *)
(***************************************************************************)
\* a record of Partner_A with a key of its own: delivered, not signed
A4 == JObject([order_id |-> JStr("d2"), site_id |-> JStr("S1"),
               deliveryStatus |-> JStr("DELIVERED"), podSigned |-> JBool(FALSE),
               deliveryTime |-> JStr("2025-10-27T09:30:00")])

QueryOutcomes(partner) ==
    IF partner = PARTNER_A
    THEN {Response(200, ListBody(<<A1>>)), Response(200, ListBody(<<A4>>))}
    ELSE {Response(200, ListBody(<<B2>>)), Response(404, NotJsonBody)}

\* the query parameters of GET /deliveries and GET /jobs/{jobId}/results
SiteFilters == {None, Some("S1")}
StatusFilters == {None, Some("delivered"), Some("")}
ScoreFilters == {None, Some(4)}
Limits == 1..MaxLimit
Offsets == 0..MaxOffset

\* main.py:109-130 GET /jobs/{jobId}/results
get_job_results(jobId, limit, offset) ==
    LET job == get_job_by_id(jobs, jobId)
        query == [op |-> "get_job_results", jobId |-> jobId]
    IN
    /\ reply = NoReply
    /\ IF ~IsSome(job)
       THEN reply' = [status_code |-> 404, body |-> None, query |-> query]
       ELSE IF Get(job).status \notin {"finished", "failed"}
       THEN reply' = [status_code |-> 400, body |-> None, query |-> query]
       ELSE \E ordered \in OrderByCreatedAtDesc(JobWhere(deliveries, jobId)) :
              LET found == get_deliveries_by_job_id(deliveries, jobId, limit, offset, ordered)
              IN  reply' = [status_code |-> 200,
                            body |-> Some([total_count |-> found.total_count,
                                           limit |-> limit, offset |-> offset,
                                           data |-> found.deliveries]),
                            query |-> query]
    /\ UNCHANGED <<jobs, deliveries, clock, task, fetch, arrived, info, upserts,
                   terminalWrites, request, retry, probe>>

\* main.py:133-157 GET /deliveries
get_deliveries(siteId, status, min_score, limit, offset) ==
    /\ reply = NoReply
    /\ \E ordered \in OrderByCreatedAtDesc(SearchWhere(deliveries, siteId, status, min_score)) :
         LET found == search_deliveries(deliveries, siteId, status, min_score, limit,
                                        offset, ordered)
         IN  reply' = [status_code |-> 200,
                       body |-> Some([total_count |-> found.total_count,
                                      limit |-> limit, offset |-> offset,
                                      data |-> found.deliveries]),
                       query |-> [op |-> "search_deliveries", siteId |-> siteId,
                                  status |-> status, min_score |-> min_score]]
    /\ UNCHANGED <<jobs, deliveries, clock, task, fetch, arrived, info, upserts,
                   terminalWrites, request, retry, probe>>

\* the model follows the service up to the answer to the client's request
NextQuery ==
    \/ reply = NoReply /\ \E date \in Dates : start_fetch_job("S1", date)
    \/ reply = NoReply /\ \E j \in JobIds : run_fetch_job(j)
    \/ reply = NoReply /\ \E j \in JobIds, p \in Partners : Attempt(j, p, QueryOutcomes(p), 0)
    \/ reply = NoReply /\ \E j \in JobIds : Finish(j)
    \/ \E jobId \in ReadIds, limit \in Limits, offset \in Offsets :
           get_job_results(jobId, limit, offset)
    \/ \E siteId \in SiteFilters, status \in StatusFilters, min_score \in ScoreFilters,
          limit \in Limits, offset \in Offsets :
           get_deliveries(siteId, status, min_score, limit, offset)

QuerySpec == Init /\ [][NextQuery]_vars

(***************************************************************************)
(* TimedSpec: MaxJobs overlapping jobs while time passes, up to MaxClock;  *)
(* Partner_A answers with one of two sightings of the same delivery, the   *)
(* second also followed by a record that ends the batch fatally, or with   *)
(* both sightings in one response, and Partner_B with a record or a fatal  *)
(* status.                                                                 *)
(***************************************************************************)
TimedOutcomes(partner) ==
    IF partner = PARTNER_A
    THEN {Response(200, ListBody(<<A1>>)), Response(200, ListBody(<<A2>>)),
          Response(200, ListBody(<<A2, JScalar>>)), Response(200, ListBody(<<A1, A2>>))}
    ELSE {Response(200, ListBody(<<B1>>)), Response(404, NotJsonBody)}

\* datetime.now(timezone.utc) has moved on
Tick ==
    /\ clock < MaxClock
    /\ clock' = clock + 1
    /\ UNCHANGED <<jobs, deliveries, task, fetch, arrived, info, upserts, terminalWrites,
                   request, reply, retry, probe>>

NextTimed ==
    \/ \E date \in Dates : start_fetch_job("S1", date)
    \/ \E j \in JobIds : run_fetch_job(j)
    \/ \E j \in JobIds, p \in Partners : Attempt(j, p, TimedOutcomes(p), 0)
    \/ \E j \in JobIds : Finish(j)
    \/ Tick

TimedSpec == Init /\ [][NextTimed]_vars

(***************************************************************************)
(* Claims                                                                  *)
(***************************************************************************)
Terminal == {"finished", "failed"}
Created(j) == j \in DOMAIN jobs
\* the run of job j ended through the aggregation, not through the handler
\* of client.py:163-165
EndedNormally(j) ==
    /\ Created(j)
    /\ task[j] = "done"
    /\ ~(IsSome(jobs[j].error) /\ Get(jobs[j].error).text = "Catastrophic job runner failure")
FatalPartners(j) == {p \in Partners : IsSome(fetch[j][p].result.fatal)}
RECURSIVE TotalStored(_, _)
TotalStored(j, ps) ==
    IF ps = {} THEN 0
    ELSE LET p == CHOOSE p \in ps : TRUE
         IN  fetch[j][p].result.stats.transformed + TotalStored(j, ps \ {p})
RowsOf(k) == {r \in deliveries : <<r.supplier, r.supplierDeliveryId>> = k}

\* C1: in every step a job's status either stays as it is or moves along
\* created -> processing -> finished | failed (a new job starts as created),
\* and no job receives more than one write of a terminal status.
StatusSteps ==
    {<<"created", "processing">>, <<"processing", "finished">>, <<"processing", "failed">>}
C1_StatusOrder ==
    [][\A j \in DOMAIN jobs' :
          /\ IF j \in DOMAIN jobs
             THEN \/ jobs'[j].status = jobs[j].status
                  \/ <<jobs[j].status, jobs'[j].status>> \in StatusSteps
             ELSE jobs'[j].status = "created"
          /\ terminalWrites'[j] <= 1]_vars
\* one job has ended finished and another failed, each after one terminal write
C1_Witness ==
    \E j, k \in DOMAIN jobs :
        /\ jobs[j].status = "finished" /\ terminalWrites[j] = 1
        /\ jobs[k].status = "failed" /\ terminalWrites[k] = 1

\* C2: a job that is processing eventually is finished or failed.
C2_ReachesTerminal ==
    \A j \in JobIds :
        (Created(j) /\ jobs[j].status = "processing")
            ~> (Created(j) /\ jobs[j].status \in Terminal)
\* a job is terminal after one partner exhausted its retries and the other
\* sent a body that does not decode
C2_Witness ==
    \E j \in DOMAIN jobs :
        /\ jobs[j].status \in Terminal
        /\ fetch[j][PARTNER_A].attempt = MaxRetries
        /\ IsSome(fetch[j][PARTNER_A].result.fatal)
        /\ fetch[j][PARTNER_B].result.stats.error_message
               = StatsMessage("Critical Fetch Error", 0, "JSONDecodeError")

\* C3: a job whose run ended through the aggregation is failed exactly when
\* some partner reported a fatal error and the partners stored nothing in
\* total; otherwise it is finished.
C3_FinalStatus ==
    \A j \in JobIds :
        EndedNormally(j) =>
            /\ jobs[j].status \in Terminal
            /\ jobs[j].status = "failed"
                   <=> (FatalPartners(j) # {} /\ TotalStored(j, Partners) = 0)
\* a job with no fatal error and nothing stored has ended finished
C3_Witness ==
    \E j \in JobIds :
        /\ EndedNormally(j)
        /\ FatalPartners(j) = {} /\ TotalStored(j, Partners) = 0
        /\ jobs[j].status = "finished"

\* C4: no two rows of delivery_events have the same supplier and
\* supplierDeliveryId.
C4_OneRowPerKey ==
    \A r1, r2 \in deliveries :
        (r1.supplier = r2.supplier /\ r1.supplierDeliveryId = r2.supplierDeliveryId)
            => r1 = r2
\* a key has been upserted by two jobs
C4_Witness ==
    \E k \in DOMAIN upserts :
        /\ upserts[k].calls >= 2 /\ upserts[k].firstJob # upserts[k].lastJob
        /\ RowsOf(k) # {}

\* C5: after two upserts of a key there is one row for it, with the content,
\* source payload and data errors of the first call and the jobId of the
\* second.
ContentOf(r) ==
    [siteId |-> r.siteId, supplier |-> r.supplier,
     supplierDeliveryId |-> r.supplierDeliveryId, deliveredAt |-> r.deliveredAt,
     status |-> r.status, deliveryScore |-> r.deliveryScore, isSigned |-> r.isSigned]
C5_FirstContentLastJob ==
    \A k \in DOMAIN upserts :
        upserts[k].calls = 2 =>
            /\ Cardinality(RowsOf(k)) = 1
            /\ \A r \in RowsOf(k) :
                  /\ ContentOf(r) = upserts[k].data
                  /\ r.sourceData = upserts[k].source_data
                  /\ r.dataErrors = upserts[k].data_errors
                  /\ r.jobId = upserts[k].lastJob
\* the second upsert of a key came from another job with another payload
C5_Witness ==
    \E k \in DOMAIN upserts :
        /\ upserts[k].calls = 2
        /\ upserts[k].lastJob # upserts[k].firstJob
        /\ upserts[k].lastSource # upserts[k].source_data
        /\ \E r \in RowsOf(k) : r.jobId = upserts[k].lastJob

\* C6: however the fetches of overlapping jobs interleave, exactly one of
\* the upserts of a key takes the insert branch.
C6_OneInsertPerKey ==
    \A k \in DOMAIN upserts : upserts[k].inserts = 1
\* two jobs whose fetches of one partner were in flight together have both
\* upserted the same key
C6_Witness ==
    \E k \in DOMAIN upserts :
        /\ upserts[k].calls = 2 /\ upserts[k].firstJob # upserts[k].lastJob
        /\ \A j \in JobIds : task[j] = "gathering"

\* C7: a job that ended through the aggregation with a fatal error of one
\* partner and at least one record stored by another partner, which reported
\* no fatal error, is finished and its error is that fatal message.
C7_PartialSuccessKeepsError ==
    \A j \in JobIds : \A p, q \in Partners :
        (/\ EndedNormally(j)
         /\ p # q
         /\ IsSome(fetch[j][p].result.fatal)
         /\ ~IsSome(fetch[j][q].result.fatal)
         /\ fetch[j][q].result.stats.transformed >= 1)
            => /\ jobs[j].status = "finished"
               /\ jobs[j].error = fetch[j][p].result.fatal
\* Partner_A failed with HTTP 404, Partner_B stored a record, the job is finished
C7_Witness ==
    \E j \in JobIds :
        /\ EndedNormally(j)
        /\ fetch[j][PARTNER_A].result.fatal
               = JobMessage("terminal HTTP error", PARTNER_A, 404, "")
        /\ ~IsSome(fetch[j][PARTNER_B].result.fatal)
        /\ fetch[j][PARTNER_B].result.stats.transformed >= 1
        /\ jobs[j].status = "finished"

\* C8: a job that ended failed through the aggregation has an error, and it
\* is the fatal message of the first partner of PARTNER_CONFIG that reported
\* one.
FirstFatal(j) ==
    PARTNER_CONFIG[CHOOSE i \in 1..Len(PARTNER_CONFIG) :
                       /\ PARTNER_CONFIG[i] \in FatalPartners(j)
                       /\ \A h \in 1..(i - 1) : PARTNER_CONFIG[h] \notin FatalPartners(j)]
C8_FailedErrorIsFirstFatal ==
    \A j \in JobIds :
        (EndedNormally(j) /\ jobs[j].status = "failed")
            => /\ IsSome(jobs[j].error)
               /\ FatalPartners(j) # {}
               /\ jobs[j].error = fetch[j][FirstFatal(j)].result.fatal
\* both partners reported a fatal error, Partner_B before Partner_A, and the
\* failed job carries Partner_A's message
C8_Witness ==
    \E j \in JobIds :
        /\ EndedNormally(j) /\ jobs[j].status = "failed"
        /\ FatalPartners(j) = Partners
        /\ arrived[j] = <<PARTNER_B, PARTNER_A>>
        /\ jobs[j].error = fetch[j][PARTNER_A].result.fatal

\* C9: a job has finishedAt exactly when its status is finished or failed.
C9_FinishedAtIffTerminal ==
    \A j \in DOMAIN jobs :
        IsSome(jobs[j].finishedAt) <=> jobs[j].status \in Terminal
\* one job is terminal with finishedAt, another is processing without
C9_Witness ==
    \E j, k \in DOMAIN jobs :
        /\ jobs[j].status \in Terminal /\ IsSome(jobs[j].finishedAt)
        /\ jobs[k].status = "processing" /\ ~IsSome(jobs[k].finishedAt)

\* C10: no partner fetch ends by raising: each ends by returning its stats
\* and an optional fatal message.
C10_FetchNeverRaises ==
    \A j \in JobIds : \A p \in Partners :
        /\ fetch[j][p].pc # "raised"
        /\ ~fetch[j][p].result.raised
\* one fetch returned after a record no transformer accepts, the other
\* after a body that is no list
C10_Witness ==
    \E j \in JobIds :
        /\ fetch[j][PARTNER_A].pc = "returned"
        /\ fetch[j][PARTNER_A].result.stats.error_message
               = StatsMessage("Critical Fetch Error", 0, "AttributeError")
        /\ fetch[j][PARTNER_B].pc = "returned"
        /\ fetch[j][PARTNER_B].result.stats.error_message
               = StatsMessage("Critical Fetch Error", 0, "TypeError")

\* C11: a fetch that decoded its response has handled every record of it,
\* as transformed or as an error, and reports no batch-level fatal error:
\* a failing record costs one error and nothing else.
C11_RecordFailureIsolated ==
    \A j \in JobIds : \A p \in Partners :
        (fetch[j][p].pc = "returned" /\ fetch[j][p].result.stats.fetched > 0)
            => /\ fetch[j][p].result.stats.transformed + fetch[j][p].result.stats.errors
                      = fetch[j][p].result.stats.fetched
               /\ ~IsSome(fetch[j][p].result.fatal)

\* Kinds of outcome of a wrapped call, as the retry policy classifies them
RetriableFailure(o) ==
    \/ o.kind = "response" /\ o.status_code \in {500, 502, 503, 504}
    \/ o.kind = "exception" /\ o.exc \in {"ConnectError", "TimeoutException"}
    \/ o.kind = "exception" /\ o.exc = "HTTPStatusError"
           /\ o.status_code \in {500, 502, 503, 504}
Success(o) == o.kind = "response" /\ o.status_code \in 200..299
FatalFailure(o) == ~Success(o) /\ ~RetriableFailure(o)

\* C12: when the wrapped call has failed with retriable errors k < MaxRetries
\* times and then succeeded, the wrapper has returned that success value
\* after k+1 invocations and k sleeps, the i-th sleep (from 0) no longer
\* than base_backoff_time * 2^i.
C12_RetryThenSuccess ==
    LET n == Len(retry.outcomes) IN
    (/\ n >= 1 /\ n - 1 < MaxRetries
     /\ \A i \in 1..(n - 1) : RetriableFailure(retry.outcomes[i])
     /\ Success(retry.outcomes[n]))
        => /\ retry.pc = "returned"
           /\ retry.result = Some(retry.outcomes[n])
           /\ retry.calls = n
           /\ Len(retry.sleeps) = n - 1
           /\ \A i \in 1..(n - 1) :
                  /\ retry.sleeps[i] >= 0
                  /\ retry.sleeps[i] <= base_backoff_time * (2 ^ (i - 1))
\* the call succeeded at its third invocation, after a timeout and a 503,
\* and the second sleep took its longest delay
C12_Witness ==
    /\ retry.pc = "returned"
    /\ Len(retry.outcomes) = 3
    /\ retry.outcomes[1] = Exception("TimeoutException", 0)
    /\ retry.outcomes[2] = Response(503, NoBody)
    /\ Success(retry.outcomes[3])
    /\ retry.sleeps = <<0, 2>>

\* C13: a failure that is not retriable is the last outcome of the wrapped
\* call: the wrapper has ended at that attempt, after one invocation per
\* outcome and one sleep per earlier attempt, so with one invocation and no
\* sleep when the failure came at the first attempt.
C13_FatalEndsAtOnce ==
    \A i \in 1..Len(retry.outcomes) :
        FatalFailure(retry.outcomes[i])
            => /\ i = Len(retry.outcomes)
               /\ retry.pc \in {"returned", "raised"}
               /\ retry.result = Some(retry.outcomes[i])
               /\ retry.calls = i
               /\ Len(retry.sleeps) = i - 1
\* a ReadError at the first attempt was raised after one call and no sleep
C13_Witness ==
    /\ retry.outcomes = <<Exception("ReadError", 0)>>
    /\ retry.pc = "raised"
    /\ retry.calls = 1
    /\ retry.sleeps = << >>

\* C14 as stated: after MaxRetries+1 attempts that all failed with a
\* retriable error, the wrapper has raised the last error.
C14_ExhaustionRaises ==
    LET n == Len(retry.outcomes) IN
    (/\ n = MaxRetries + 1
     /\ \A i \in 1..n : RetriableFailure(retry.outcomes[i]))
        => /\ retry.pc = "raised"
           /\ retry.result = Some(retry.outcomes[n])

\* C14, amended: after MaxRetries+1 attempts that all failed with a retriable
\* error the wrapper has ended with the last outcome unchanged: a last
\* exception is raised again, a last response with a retriable status code
\* is returned to the caller.
C14_ExhaustionEndsWithLastOutcome ==
    LET n == Len(retry.outcomes) IN
    (/\ n = MaxRetries + 1
     /\ \A i \in 1..n : RetriableFailure(retry.outcomes[i]))
        => /\ retry.calls = n
           /\ Len(retry.sleeps) = MaxRetries
           /\ retry.result = Some(retry.outcomes[n])
           /\ retry.pc = IF retry.outcomes[n].kind = "exception" THEN "raised"
                         ELSE "returned"
\* three timeouts and then a fourth response with status 503: the wrapper
\* has returned that response after three sleeps
C14_Witness ==
    /\ Len(retry.outcomes) = MaxRetries + 1
    /\ \A i \in 1..MaxRetries : retry.outcomes[i] = Exception("TimeoutException", 0)
    /\ retry.outcomes[MaxRetries + 1] = Response(503, NoBody)
    /\ retry.pc = "returned"
    /\ retry.result = Some(Response(503, NoBody))
    /\ Len(retry.sleeps) = MaxRetries

\* a call of function op has returned
Called(op) == probe.op = op /\ probe.done

\* C16: the score of (delivered, signed) is 1 plus 2 if delivered plus 2 if
\* signed: 5 for both, 3 for one of them, 1 for none, and always in 1..5.
C16_Score ==
    Called("_calculate_score") =>
        LET d == probe.arg.is_delivered
            g == probe.arg.is_signed
        IN  /\ probe.out = 1 + (IF d THEN 2 ELSE 0) + (IF g THEN 2 ELSE 0)
            /\ (d /\ g) => probe.out = 5
            /\ (d /\ ~g) => probe.out = 3
            /\ (~d /\ g) => probe.out = 3
            /\ (~d /\ ~g) => probe.out = 1
            /\ probe.out >= 1 /\ probe.out <= 5
\* the score of a signed delivery that was not delivered has been computed
C16_Witness ==
    /\ Called("_calculate_score")
    /\ ~probe.arg.is_delivered /\ probe.arg.is_signed
    /\ probe.out = 3

\* C15: a record whose delivery timestamp is missing or does not parse, and
\* whose other fields are valid, is transformed without an exception into
\* an event whose deliveredAt is the time of processing, with a data error
\* for deliveredAt; fetched into an empty store it is counted as transformed
\* and not as an error, and its row carries that data error.
C15_TimestampFallback ==
    /\ (/\ Called("transform_and_score")
        /\ probe.arg.time \in {"missing", "unparsable"}
        /\ probe.arg.rest = "valid")
           => /\ ~probe.out.raised
              /\ probe.out.event.deliveredAt = clock
              /\ IsSome(probe.out.data_errors)
              /\ "deliveredAt" \in DOMAIN Get(probe.out.data_errors)
    /\ (/\ Called("fetch_partner_data")
        /\ probe.arg.time \in {"missing", "unparsable"}
        /\ probe.arg.rest = "valid")
           => /\ ~probe.out.result.raised
              /\ ~IsSome(probe.out.result.fatal)
              /\ probe.out.result.stats.fetched = 1
              /\ probe.out.result.stats.transformed = 1
              /\ probe.out.result.stats.errors = 0
              /\ Cardinality(probe.out.rows) = 1
              /\ \A r \in probe.out.rows :
                    /\ r.sourceData = probe.arg.record
                    /\ r.deliveredAt = clock
                    /\ IsSome(r.dataErrors)
                    /\ "deliveredAt" \in DOMAIN Get(r.dataErrors)
\* a Partner_B record without a timestamp has been fetched and stored with
\* its data error
C15_Witness ==
    /\ Called("fetch_partner_data")
    /\ probe.arg.partner = PARTNER_B
    /\ probe.arg.time = "missing" /\ probe.arg.rest = "valid"
    /\ probe.out.result.stats.transformed = 1
    /\ \E r \in probe.out.rows : IsSome(r.dataErrors)

\* C17: the normalized status is one of delivered, cancelled, pending and
\* other; it is the first of delivered, cancelled, pending of which the raw
\* status holds a keyword, in whatever case and position, and other when it
\* holds none.
C17_Normalize ==
    Called("_normalize_status") =>
        /\ probe.out \in {"delivered", "cancelled", "pending", "other"}
        /\ probe.out = IF "delivered" \in probe.arg.has THEN "delivered"
                       ELSE IF "cancelled" \in probe.arg.has THEN "cancelled"
                       ELSE IF "pending" \in probe.arg.has THEN "pending"
                       ELSE "other"
\* "SCHEDULED CANCEL", in capitals and with the pending keyword first, has
\* been normalized to cancelled
C17_Witness ==
    /\ Called("_normalize_status")
    /\ probe.arg.text = Upper(<<"s", "c", "h", "e", "d", "u", "l", "e", "d", " ",
                                "c", "a", "n", "c", "e", "l">>)
    /\ probe.out = "cancelled"

\* C18: jobs submitted for the same site and date are separate jobs: no step
\* of the run of one job changes the row (status, statistics, error) of
\* another job, and every submitted job eventually is finished or failed.
C18_IndependentJobs ==
    /\ [][\A j \in JobIds :
             RunOf(j, MaxFaults) =>
                 \A k \in DOMAIN jobs : k # j => jobs'[k] = jobs[k]]_vars
    /\ \A j \in JobIds :
           (Created(j) /\ task[j] = "queued") ~> (Created(j) /\ jobs[j].status \in Terminal)
\* two jobs of the same request, with different ids, the first still being
\* fetched when the second has ended as failed, the first then finished
C18_Witness ==
    \E j, k \in DOMAIN jobs :
        /\ j # k
        /\ request[j] = request[k]
        /\ jobs[j].status = "finished" /\ jobs[k].status = "failed"
        /\ jobs[j].stats # jobs[k].stats

\* C19: a finished job's error is never the fatal batch message of one of
\* its partners.
C19_FinishedWithoutFatalMessage ==
    \A j \in JobIds :
        (EndedNormally(j) /\ jobs[j].status = "finished")
            => \A p \in FatalPartners(j) : jobs[j].error # fetch[j][p].result.fatal
\* C19, amended: a finished job's error is empty when no partner reported a
\* fatal batch error, and otherwise is the fatal message of the first
\* partner of PARTNER_CONFIG that reported one.
C19_FinishedErrorIsFatalMessageIfAny ==
    \A j \in JobIds :
        (EndedNormally(j) /\ jobs[j].status = "finished")
            => /\ FatalPartners(j) = {} => jobs[j].error = None
               /\ FatalPartners(j) # {}
                     => /\ IsSome(jobs[j].error)
                        /\ jobs[j].error = fetch[j][FirstFatal(j)].result.fatal
\* Partner_B could not be reached after all retries, Partner_A stored a
\* record: the job is finished and carries Partner_B's message
C19_Witness ==
    \E j \in JobIds :
        /\ EndedNormally(j) /\ jobs[j].status = "finished"
        /\ FatalPartners(j) = {PARTNER_B}
        /\ fetch[j][PARTNER_B].attempt = MaxRetries
        /\ fetch[j][PARTNER_A].result.stats.transformed >= 1
        /\ jobs[j].error = fetch[j][PARTNER_B].result.fatal

\* C20: a submission stores a new row under the new job id, with status
\* created and the site and date of the request, and changes no other row;
\* as long as the background run has not started the row stays so, no
\* partner call of the job has been issued, and a read of the id returns
\* the job with status created and its inputs; a read of an id that was
\* never given to a job returns nothing.
C20_CreatedUntilRun ==
    /\ [][\A siteId \in Sites, date \in Dates :
             start_fetch_job(siteId, date) =>
                 /\ uuid4 \notin DOMAIN jobs
                 /\ DOMAIN jobs' = DOMAIN jobs \cup {uuid4}
                 /\ jobs'[uuid4].status = "created"
                 /\ jobs'[uuid4].input = [siteId |-> siteId, date |-> date]
                 /\ \A k \in DOMAIN jobs : jobs'[k] = jobs[k]
                 /\ fetch'[uuid4] = [p \in Partners |-> IdleFetch]]_vars
    /\ [](\A j \in JobIds :
             task[j] = "queued" =>
                 /\ Created(j)
                 /\ jobs[j].status = "created"
                 /\ jobs[j].input = request[j]
                 /\ \A p \in Partners : fetch[j][p].pc = "idle"
                 /\ IsSome(get_job_by_id(jobs, j))
                 /\ Get(get_job_by_id(jobs, j)).jobId = j
                 /\ Get(get_job_by_id(jobs, j)).status = "created")
    /\ [](\A id \in ReadIds : id \notin DOMAIN request => get_job_by_id(jobs, id) = None)
    /\ [][\A id \in ReadIds :
             get_job_status(id) =>
                 /\ id \notin DOMAIN request
                       => reply'.status_code = 404 /\ reply'.body = None
                 /\ (id \in JobIds /\ task[id] = "queued")
                       => /\ reply'.status_code = 200
                          /\ Get(reply'.body).jobId = id
                          /\ Get(reply'.body).status = "created"
                          /\ Get(reply'.body).siteId = request[id].siteId
                          /\ Get(reply'.body).date = request[id].date]_vars
\* the second job, for site S2, has been read as created while the first
\* job, for site S1, has already ended
C20_Witness ==
    /\ DOMAIN jobs = {1, 2}
    /\ task[1] = "done" /\ task[2] = "queued"
    /\ request[1].siteId = "S1" /\ request[2].siteId = "S2"
    /\ reply.status_code = 200
    /\ Get(reply.body).jobId = 2
    /\ Get(reply.body).status = "created"
    /\ Get(reply.body).siteId = "S2"

\* C21: a listing by job returns only rows whose current jobId is the job
\* asked for, a search only rows that satisfy every supplied filter (site,
\* status, minimum score; an empty string is no filter); both return at most
\* `limit` rows, without repetition, and a total_count that is the number of
\* stored rows satisfying the same filters, whatever limit and offset are.
Answered(op) ==
    /\ "query" \in DOMAIN reply'
    /\ reply' # reply
    /\ reply'.query.op = op
    /\ reply'.status_code = 200
Supplied(filter) == IsSome(filter) /\ Get(filter) # ""
Satisfies(r, query) ==
    /\ Supplied(query.siteId) => r.siteId = Get(query.siteId)
    /\ Supplied(query.status) => r.status = Get(query.status)
    /\ IsSome(query.min_score) => r.deliveryScore >= Get(query.min_score)
PageOf(body, wanted) ==
    /\ Len(body.data) <= body.limit
    /\ \A i \in 1..Len(body.data) : body.data[i] \in wanted
    /\ \A i, k \in 1..Len(body.data) : i # k => body.data[i] # body.data[k]
    /\ body.total_count = Cardinality(wanted)
    /\ Len(body.data) = IF Cardinality(wanted) - body.offset < 0 THEN 0
                        ELSE IF Cardinality(wanted) - body.offset < body.limit
                        THEN Cardinality(wanted) - body.offset
                        ELSE body.limit
C21_QueriesFilterAndCount ==
    [][/\ Answered("get_job_results") =>
              PageOf(Get(reply'.body), {r \in deliveries : r.jobId = reply'.query.jobId})
       /\ Answered("search_deliveries") =>
              PageOf(Get(reply'.body), {r \in deliveries : Satisfies(r, reply'.query)})]_vars
\* three rows are stored, two of them for site S1, one of these with a
\* score of 4 or more; the second page, of one row, of a search for the
\* rows of site S1 has been returned
C21_Witness ==
    /\ Cardinality(deliveries) = 3
    /\ "query" \in DOMAIN reply
    /\ reply.query.op = "search_deliveries"
    /\ reply.query.siteId = Some("S1") /\ reply.query.min_score = None
    /\ Get(reply.body).total_count = 2
    /\ Get(reply.body).offset = 1
    /\ Len(Get(reply.body).data) = 1
    /\ \A r \in deliveries :
          r.siteId = "S1" \/ Get(reply.body).data[1] # r

\* C22: a job that is finished or failed has no partner fetch that is still
\* calling its partner, sleeping before a retry or processing records: every
\* fetch of the job has returned, and the terminal status was written in a
\* step in which all of them had already returned.
C22_TerminalAfterAllFetches ==
    /\ [](\A j \in DOMAIN jobs :
             jobs[j].status \in Terminal
                 => \A p \in Partners : fetch[j][p].pc = "returned")
    /\ [][\A j \in DOMAIN jobs :
             (jobs[j].status \notin Terminal /\ jobs'[j].status \in Terminal)
                 => /\ \A p \in Partners : fetch[j][p].pc = "returned"
                    /\ Len(arrived[j]) = Len(PARTNER_CONFIG)]_vars
\* a job has ended while the other job is still fetching; its Partner_A
\* fetch returned after a retry, later than its Partner_B fetch
C22_Witness ==
    \E j, k \in DOMAIN jobs :
        /\ j # k
        /\ jobs[j].status \in Terminal
        /\ fetch[j][PARTNER_A].attempt = 1
        /\ arrived[j] = <<PARTNER_B, PARTNER_A>>
        /\ \E p \in Partners : fetch[k][p].pc \in {"calling", "sleeping"}

\* C23: a partner fetch calls its partner at most MaxRetries+1 times and
\* sleeps at most MaxRetries times (attempt counts the sleeps that have
\* ended, and every call but the one under way was followed by a sleep or by
\* the end of the fetch), and every fetch that has been started eventually
\* returns, also when every attempt fails.
CallsOf(f) == f.attempt + (IF f.pc \in {"sleeping", "returned", "raised"} THEN 1 ELSE 0)
SleepsOf(f) == f.attempt + (IF f.pc = "sleeping" THEN 1 ELSE 0)
C23_BoundedRetriesTerminate ==
    /\ [](\A j \in JobIds : \A p \in Partners :
             /\ CallsOf(fetch[j][p]) <= MaxRetries + 1
             /\ SleepsOf(fetch[j][p]) <= MaxRetries)
    /\ \A j \in JobIds : \A p \in Partners :
           (fetch[j][p].pc = "calling") ~> (fetch[j][p].pc = "returned")
\* Partner_A timed out at every one of its MaxRetries+1 attempts and the
\* fetch has returned with the fatal error of the last one
C23_Witness ==
    \E j \in JobIds :
        /\ fetch[j][PARTNER_A].pc = "returned"
        /\ CallsOf(fetch[j][PARTNER_A]) = MaxRetries + 1
        /\ SleepsOf(fetch[j][PARTNER_A]) = MaxRetries
        /\ fetch[j][PARTNER_A].result.fatal
               = JobMessage("final error", PARTNER_A, 0, "TimeoutException")

\* C24: a fetch whose call failed with retriable errors on at least one and
\* at most MaxRetries attempts and then succeeded with a list of records
\* (fetched is set from a decoded list only) returns without a fatal error,
\* and with a result and a store that a success of the first attempt gives
\* in the same state.
ListOutcomes(p) ==
    {o \in KindOutcomes(p) : o.status_code = 200 /\ o.body.kind = "list"}
C24_RecoveredFailuresInvisible ==
    [][\A j \in JobIds : \A p \in Partners :
          (/\ fetch[j][p].pc = "calling"
           /\ fetch[j][p].attempt >= 1
           /\ fetch'[j][p].pc \in {"returned", "raised"}
           /\ fetch'[j][p].result.stats.fetched >= 1)
              => /\ fetch'[j][p].pc = "returned"
                 /\ ~IsSome(fetch'[j][p].result.fatal)
                 /\ \E outcome \in ListOutcomes(p) :
                    \E dbFails \in SUBSET (1..Len(outcome.body.items)) :
                       LET end == fetch_partner_data(p, wrapper(0, outcome), outcome,
                                                     deliveries, clock, upserts,
                                                     info[SessionOf(j)], dbFails)
                       IN  /\ fetch'[j][p].result = end.result
                           /\ deliveries' = end.rows]_vars

\* C25: every row stored by the fetch of a record has a non-empty siteId and
\* supplierDeliveryId, a status among delivered, cancelled, pending, other
\* and a score from 1 to 5; a record whose site id or delivery id is not a
\* non-empty string gives no row and is counted as one error.
RawSiteOf(arg) ==
    IF arg.partner = PARTNER_A THEN DictGet(arg.record.obj, "site_id", JNull)
    ELSE DictGet(DictGet(arg.record.obj, "location", EmptyDict), "site_ref", JNull)
RawIdOf(arg) ==
    IF arg.partner = PARTNER_A THEN DictGet(arg.record.obj, "order_id", JNull)
    ELSE DictGet(arg.record.obj, "reference_id", JNull)
NonEmptyStr(v) == v.t = "str" /\ v.s # ""
C25_StoredRowsValid ==
    Called("fetch_partner_data") =>
        /\ \A r \in probe.out.rows :
              /\ r.siteId # "" /\ r.supplierDeliveryId # ""
              /\ r.status \in {"delivered", "cancelled", "pending", "other"}
              /\ r.deliveryScore >= 1 /\ r.deliveryScore <= 5
        /\ ~(NonEmptyStr(RawSiteOf(probe.arg)) /\ NonEmptyStr(RawIdOf(probe.arg)))
              => /\ probe.out.rows = {}
                 /\ probe.out.result.stats.errors = 1
                 /\ probe.out.result.stats.transformed = 0

\* C26: in every step, every stored delivery row is still stored afterwards
\* with the same id, key, content fields, source payload, data errors and
\* createdAt: only its jobId and updatedAt may have changed.
C26_RowsOnlyRestamped ==
    [][\A r \in deliveries :
          \E r2 \in deliveries' :
              r2 = [r EXCEPT !.jobId = r2.jobId, !.updatedAt = r2.updatedAt]]_vars
\* a row stored by the first job has been sighted again, later, by the
\* second job, whose Partner_A batch then failed fatally; the first job has
\* ended
C26_Witness ==
    \E r \in deliveries : \E j \in DOMAIN jobs :
        /\ r.createdAt < r.updatedAt
        /\ r.jobId = j
        /\ upserts[<<r.supplier, r.supplierDeliveryId>>].firstJob # j
        /\ r.sourceData = A1
        /\ IsSome(fetch[j][PARTNER_A].result.fatal)
        /\ fetch[j][PARTNER_A].result.stats.transformed = 1
        /\ \E k \in DOMAIN jobs : k # j /\ jobs[k].status \in Terminal

\* C27: in a job that ended through the aggregation, the entry of stats for
\* each partner of PARTNER_CONFIG is the stats that partner's own fetch
\* returned, in whatever order the fetches ended; total_fetched is the sum of
\* the partners' fetched counts and stored the sum of their transformed
\* counts.
RECURSIVE TotalFetched(_, _)
TotalFetched(j, ps) ==
    IF ps = {} THEN 0
    ELSE LET p == CHOOSE p \in ps : TRUE
         IN  fetch[j][p].result.stats.fetched + TotalFetched(j, ps \ {p})
C27_StatsByPartner ==
    \A j \in JobIds :
        EndedNormally(j) =>
            /\ \A p \in Partners : jobs[j].stats[p] = fetch[j][p].result.stats
            /\ jobs[j].stats.total_fetched = TotalFetched(j, Partners)
            /\ jobs[j].stats.stored = TotalStored(j, Partners)
\* Partner_B's fetch ended first; the two fetches returned different stats,
\* and fewer records were stored than fetched
C27_Witness ==
    \E j \in JobIds :
        /\ EndedNormally(j)
        /\ arrived[j] = <<PARTNER_B, PARTNER_A>>
        /\ fetch[j][PARTNER_A].result.stats.fetched = 2
        /\ fetch[j][PARTNER_A].result.stats.transformed = 1
        /\ fetch[j][PARTNER_B].result.stats.fetched = 1
        /\ fetch[j][PARTNER_B].result.stats.transformed = 1
        /\ jobs[j].stats.total_fetched = 3 /\ jobs[j].stats.stored = 2

C29_CountersAddUp ==
    \A j \in JobIds : \A p \in Partners :
        fetch[j][p].pc = "returned" =>
            LET stats == fetch[j][p].result.stats IN
            /\ stats.transformed + stats.errors <= stats.fetched
            /\ ~IsSome(fetch[j][p].result.fatal)
                  => stats.transformed + stats.errors = stats.fetched
\* a fetch of two records has returned without a fatal error, one record
\* stored and one counted as an error; the other fetch ended its batch after
\* the first of two records
C29_Witness ==
    \E j \in JobIds : \E p, q \in Partners :
        /\ fetch[j][p].pc = "returned" /\ fetch[j][q].pc = "returned"
        /\ ~IsSome(fetch[j][p].result.fatal)
        /\ fetch[j][p].result.stats.fetched = 2
        /\ fetch[j][p].result.stats.transformed = 1
        /\ fetch[j][p].result.stats.errors = 1
        /\ IsSome(fetch[j][q].result.fatal)
        /\ fetch[j][q].result.stats.fetched = 2
        /\ fetch[j][q].result.stats.transformed + fetch[j][q].result.stats.errors = 1

\* C30: every row that a step of a fetch of job j inserts or changes carries
\* jobId j afterwards, and the job id in the session of a running job is
\* that job's own, however the runs of the jobs interleave.
C30_RowsStampedWithOwnJob ==
    /\ [][\A j \in JobIds :
             fetch'[j] # fetch[j]
                 => \A r \in deliveries' \ deliveries : r.jobId = j]_vars
    /\ [](\A j \in JobIds :
             task[j] = "gathering" => info[SessionOf(j)] = Some(j))
\* while both jobs are fetching, a row inserted by the second job has been
\* sighted again and re-stamped by the first
C30_Witness ==
    /\ \A j \in JobIds : task[j] = "gathering"
    /\ \E r \in deliveries :
          /\ r.jobId = 1
          /\ upserts[<<r.supplier, r.supplierDeliveryId>>].firstJob = 2
          /\ upserts[<<r.supplier, r.supplierDeliveryId>>].calls = 2

\* C31: after a job has reached a terminal state through the aggregation of
\* its partner results, the number of delivery rows stamped with its id is at
\* most its stats.stored, and it is strictly smaller when the job upserted
\* one delivery key more than once or when a row of a key it upserted has
\* since been stamped by another job.
RowsOfJob(j) == {r \in deliveries : r.jobId = j}
SameKeyTwice(j) == \E k \in DOMAIN upserts : CallsBy(upserts[k], j) >= 2
ReSighted(j) ==
    \E k \in DOMAIN upserts :
        /\ CallsBy(upserts[k], j) >= 1
        /\ upserts[k].lastJob # j
        /\ \E r \in RowsOf(k) : r.jobId # j
StoredCountsCalls(j) ==
    /\ Cardinality(RowsOfJob(j)) <= jobs[j].stats.stored
    /\ (SameKeyTwice(j) \/ ReSighted(j))
          => Cardinality(RowsOfJob(j)) < jobs[j].stats.stored
====
